---- MODULE Spec2Model ----
(***************************************************************************)
(* Motion Tetris: the game-state engine of tetris_logic.py and the session *)
(* loop of main_backup.py.                                                 *)
(*                                                                         *)
(* The board is a function row -> column -> tag with 0-based indices, as   *)
(* the numpy array board[row][col] of the source.  Clock values are        *)
(* integers in units of 1/30 s, the coarsest unit in which every delay of  *)
(* config.py is a whole number (0.5 s = 15, 0.3 s = 9, 0.5 s / 3.0 = 5).   *)
(***************************************************************************)
EXTENDS Integers, Sequences, FiniteSets, TLC

\* ------------------------------------------------------------------------
\* config.py
\* ------------------------------------------------------------------------
BOARD_WIDTH == 10
BOARD_HEIGHT == 20
DEFAULT_MOVE_DELAY == 15
ROTATION_DELAY == 15
GESTURE_COOLDOWN == 9
HARD_DROP_SPEED_MULTIPLIER == 3
HARD_DROP_DELAY == DEFAULT_MOVE_DELAY \div HARD_DROP_SPEED_MULTIPLIER

\* ------------------------------------------------------------------------
\* Bounds of the model
\* ------------------------------------------------------------------------
\* how far an anchor may lie outside the board in the function-level checks
MaxOver == 2
\* number of rows of the window in which the row-clear inputs vary
MaxWin == 4
\* largest line count handed to calculate_score in its function-level check
MaxLinesArg == 60
\* number of shortest loop iterations the session clock may run for
MaxTicks == 4

Rows == 0 .. (BOARD_HEIGHT - 1)
Cols == 0 .. (BOARD_WIDTH - 1)

\* ------------------------------------------------------------------------
\* tetris_logic.py: the shape catalog
\* ------------------------------------------------------------------------
\* faulty variant: the I matrices carry a value that is no shape tag
I_SHAPE_tag9 ==
  << << <<0, 0, 0, 0>>,
        <<9, 9, 9, 9>>,
        <<0, 0, 0, 0>>,
        <<0, 0, 0, 0>> >>,
     << <<0, 0, 9, 0>>,
        <<0, 0, 9, 0>>,
        <<0, 0, 9, 0>>,
        <<0, 0, 9, 0>> >> >>

I_SHAPE ==
  << << <<0, 0, 0, 0>>,
        <<1, 1, 1, 1>>,
        <<0, 0, 0, 0>>,
        <<0, 0, 0, 0>> >>,
     << <<0, 0, 1, 0>>,
        <<0, 0, 1, 0>>,
        <<0, 0, 1, 0>>,
        <<0, 0, 1, 0>> >> >>

J_SHAPE ==
  << << <<2, 0, 0, 0>>,
        <<2, 2, 2, 0>>,
        <<0, 0, 0, 0>>,
        <<0, 0, 0, 0>> >>,
     << <<0, 2, 2, 0>>,
        <<0, 2, 0, 0>>,
        <<0, 2, 0, 0>>,
        <<0, 0, 0, 0>> >>,
     << <<0, 0, 0, 0>>,
        <<2, 2, 2, 0>>,
        <<0, 0, 2, 0>>,
        <<0, 0, 0, 0>> >>,
     << <<0, 2, 0, 0>>,
        <<0, 2, 0, 0>>,
        <<2, 2, 0, 0>>,
        <<0, 0, 0, 0>> >> >>

L_SHAPE ==
  << << <<0, 0, 3, 0>>,
        <<3, 3, 3, 0>>,
        <<0, 0, 0, 0>>,
        <<0, 0, 0, 0>> >>,
     << <<0, 3, 0, 0>>,
        <<0, 3, 0, 0>>,
        <<0, 3, 3, 0>>,
        <<0, 0, 0, 0>> >>,
     << <<0, 0, 0, 0>>,
        <<3, 3, 3, 0>>,
        <<3, 0, 0, 0>>,
        <<0, 0, 0, 0>> >>,
     << <<3, 3, 0, 0>>,
        <<0, 3, 0, 0>>,
        <<0, 3, 0, 0>>,
        <<0, 0, 0, 0>> >> >>

O_SHAPE ==
  << << <<0, 4, 4, 0>>,
        <<0, 4, 4, 0>>,
        <<0, 0, 0, 0>>,
        <<0, 0, 0, 0>> >> >>

S_SHAPE ==
  << << <<0, 5, 5, 0>>,
        <<5, 5, 0, 0>>,
        <<0, 0, 0, 0>>,
        <<0, 0, 0, 0>> >>,
     << <<0, 5, 0, 0>>,
        <<0, 5, 5, 0>>,
        <<0, 0, 5, 0>>,
        <<0, 0, 0, 0>> >> >>

T_SHAPE ==
  << << <<0, 6, 0, 0>>,
        <<6, 6, 6, 0>>,
        <<0, 0, 0, 0>>,
        <<0, 0, 0, 0>> >>,
     << <<0, 6, 0, 0>>,
        <<0, 6, 6, 0>>,
        <<0, 6, 0, 0>>,
        <<0, 0, 0, 0>> >>,
     << <<0, 0, 0, 0>>,
        <<6, 6, 6, 0>>,
        <<0, 6, 0, 0>>,
        <<0, 0, 0, 0>> >>,
     << <<0, 6, 0, 0>>,
        <<6, 6, 0, 0>>,
        <<0, 6, 0, 0>>,
        <<0, 0, 0, 0>> >> >>

Z_SHAPE ==
  << << <<7, 7, 0, 0>>,
        <<0, 7, 7, 0>>,
        <<0, 0, 0, 0>>,
        <<0, 0, 0, 0>> >>,
     << <<0, 0, 7, 0>>,
        <<0, 7, 7, 0>>,
        <<0, 7, 0, 0>>,
        <<0, 0, 0, 0>> >> >>

\* the mapping returned by create_tetris_shapes (the 'shape' entry of each key)
create_tetris_shapes ==
  [ I |-> I_SHAPE, J |-> J_SHAPE, L |-> L_SHAPE, O |-> O_SHAPE,
    S |-> S_SHAPE, T |-> T_SHAPE, Z |-> Z_SHAPE ]

\* list(tetris_shapes_data.keys()): the keys in insertion order, index 0 first
shape_keys == << "I", "J", "L", "O", "S", "T", "Z" >>

\* shape_details['shape'][rotation_idx][r][c] with 0-based rotation_idx, r, c
ShapeCell(key, rotation_idx, r, c) ==
  create_tetris_shapes[key][rotation_idx + 1][r + 1][c + 1]

\* len(tetris_shapes_data[key]['shape'])
NumRotations(key) == Len(create_tetris_shapes[key])

\* ------------------------------------------------------------------------
\* tetris_logic.py: board operations
\* ------------------------------------------------------------------------
create_tetris_board == [r \in Rows |-> [c \in Cols |-> 0]]

\* faulty variant: the bounds test of the column accepts board_c = BOARD_WIDTH and
\* the row test is dropped for rows above the board
is_valid_position_loose(b, key, rotation_idx, piece_x, piece_y) ==
  \A r_shape \in 0 .. 3 : \A c_shape \in 0 .. 3 :
    (ShapeCell(key, rotation_idx, r_shape, c_shape) # 0) =>
      LET board_r == piece_y + r_shape
          board_c == piece_x + c_shape
      IN  /\ 0 <= board_c /\ board_c <= BOARD_WIDTH /\ board_r < BOARD_HEIGHT
          /\ (board_r \in Rows /\ board_c \in Cols) => b[board_r][board_c] = 0

\* the double loop returns False at the first occupied cell that is out of
\* bounds or on a non-zero board cell, True when there is none
is_valid_position(b, key, rotation_idx, piece_x, piece_y) ==
  \A r_shape \in 0 .. 3 : \A c_shape \in 0 .. 3 :
    (ShapeCell(key, rotation_idx, r_shape, c_shape) # 0) =>
      LET board_r == piece_y + r_shape
          board_c == piece_x + c_shape
      IN  /\ (0 <= board_c /\ board_c < BOARD_WIDTH
              /\ 0 <= board_r /\ board_r < BOARD_HEIGHT)
          /\ b[board_r][board_c] = 0

\* faulty variant: writes the cell one column to the right of where it belongs
add_piece_to_board_shifted(b, key, rotation_idx, piece_x, piece_y) ==
  [board_r \in Rows |-> [board_c \in Cols |->
     LET r_shape == board_r - piece_y
         c_shape == board_c - piece_x - 1
     IN  IF r_shape \in 0 .. 3 /\ c_shape \in 0 .. 3
            /\ ShapeCell(key, rotation_idx, r_shape, c_shape) # 0
         THEN ShapeCell(key, rotation_idx, r_shape, c_shape)
         ELSE b[board_r][board_c]]]

\* every occupied matrix cell whose board coordinate is inside the board is
\* written into the board; writes outside the board are skipped
add_piece_to_board(b, key, rotation_idx, piece_x, piece_y) ==
  [board_r \in Rows |-> [board_c \in Cols |->
     LET r_shape == board_r - piece_y
         c_shape == board_c - piece_x
     IN  IF r_shape \in 0 .. 3 /\ c_shape \in 0 .. 3
            /\ ShapeCell(key, rotation_idx, r_shape, c_shape) # 0
         THEN ShapeCell(key, rotation_idx, r_shape, c_shape)
         ELSE b[board_r][board_c]]]

\* faulty variant: a row with one empty cell left counts as full
RowFullButOne(b, r) == Cardinality({ c \in Cols : b[r][c] = 0 }) <= 1

\* np.all(board[row_idx] != 0)
RowFull(b, row_idx) == \A c \in Cols : b[row_idx][c] # 0

\* for r in range(row_idx, 0, -1): board[r] = board[r-1].copy()
RECURSIVE ShiftDown(_, _)
ShiftDown(b, r) ==
  IF r <= 0 THEN b ELSE ShiftDown([b EXCEPT ![r] = b[r - 1]], r - 1)

\* faulty variant: after a clear the scan moves on to the row above instead of
\* looking at the same row index again
RECURSIVE ClearLoopSkipping(_, _, _)
ClearLoopSkipping(b, row_idx, lines_cleared) ==
  IF row_idx < 0
  THEN [board |-> b, lines_cleared |-> lines_cleared]
  ELSE IF RowFull(b, row_idx)
       THEN ClearLoopSkipping(
              [ShiftDown(b, row_idx) EXCEPT ![0] = [c \in Cols |-> 0]],
              row_idx - 1, lines_cleared + 1)
       ELSE ClearLoopSkipping(b, row_idx - 1, lines_cleared)

\* the while loop of clear_full_rows: the board and the count after it
RECURSIVE ClearLoop(_, _, _)
ClearLoop(b, row_idx, lines_cleared) ==
  IF row_idx < 0
  THEN [board |-> b, lines_cleared |-> lines_cleared]
  ELSE IF RowFull(b, row_idx)
       THEN ClearLoop([ShiftDown(b, row_idx) EXCEPT ![0] = [c \in Cols |-> 0]],
                      row_idx, lines_cleared + 1)
       ELSE ClearLoop(b, row_idx - 1, lines_cleared)

clear_full_rows_skipping(b) == ClearLoopSkipping(b, BOARD_HEIGHT - 1, 0)

clear_full_rows(b) == ClearLoop(b, BOARD_HEIGHT - 1, 0)

\* faulty variant: cleared lines cost points
calculate_score_penalty(lines_cleared) == 0 - 100 * lines_cleared

\* faulty variant: the last branch tests == 4 instead of >= 4
calculate_score_eq4(lines_cleared_this_turn) ==
  IF lines_cleared_this_turn = 1 THEN 100
  ELSE IF lines_cleared_this_turn = 2 THEN 300
  ELSE IF lines_cleared_this_turn = 3 THEN 500
  ELSE IF lines_cleared_this_turn = 4 THEN 800
  ELSE 0

calculate_score(lines_cleared_this_turn) ==
  IF lines_cleared_this_turn = 1 THEN 100
  ELSE IF lines_cleared_this_turn = 2 THEN 300
  ELSE IF lines_cleared_this_turn = 3 THEN 500
  ELSE IF lines_cleared_this_turn >= 4 THEN 800
  ELSE 0

\* ------------------------------------------------------------------------
\* main_backup.py: perform_instant_hard_drop
\* ------------------------------------------------------------------------
\* faulty variant: the loop stops one row early
RECURSIVE DropLoopShort(_, _, _, _, _)
DropLoopShort(b, key, rotation_idx, x, drop_y) ==
  IF is_valid_position(b, key, rotation_idx, x, drop_y + 2)
  THEN DropLoopShort(b, key, rotation_idx, x, drop_y + 1)
  ELSE drop_y

RECURSIVE DropLoop(_, _, _, _, _)
DropLoop(b, key, rotation_idx, x, drop_y) ==
  IF is_valid_position(b, key, rotation_idx, x, drop_y + 1)
  THEN DropLoop(b, key, rotation_idx, x, drop_y + 1)
  ELSE drop_y

\* faulty variant: the piece is sent back to the top row
perform_instant_hard_drop_top(b, key, rotation_idx, x, y) == 0

perform_instant_hard_drop_short(b, key, rotation_idx, x, y) ==
  DropLoopShort(b, key, rotation_idx, x, y)

perform_instant_hard_drop(b, key, rotation_idx, x, y) ==
  DropLoop(b, key, rotation_idx, x, y)

\* ------------------------------------------------------------------------
\* State
\* ------------------------------------------------------------------------
\* The locals of main() in main_backup.py that make up the session, the
\* clock, and three variables of the analysis: pc (where the loop or the
\* function-level call stands), old_board (the board a function-level call
\* was given), ret (its return value) and event (what the last step of the
\* session loop did: "land", "fall", "wait" or "over" for the update half
\* of an iteration, "hard_drop", "key", "reset" or "quit" for its keyboard
\* half).
VARIABLES board, score, lines_cleared_total, game_over, shape_index,
          current_shape_key, current_rotation, pos_x, pos_y,
          last_move_time, last_gesture_time, last_rotation_time,
          hard_drop_active, lines_cleared_now,
          current_time, pc, old_board, ret, event

vars == << board, score, lines_cleared_total, game_over, shape_index,
           current_shape_key, current_rotation, pos_x, pos_y,
           last_move_time, last_gesture_time, last_rotation_time,
           hard_drop_active, lines_cleared_now,
           current_time, pc, old_board, ret, event >>

pieceVars == << shape_index, current_shape_key, current_rotation, pos_x, pos_y >>

timerVars == << last_move_time, last_gesture_time, last_rotation_time,
                current_time >>

scoreVars == << score, lines_cleared_total, game_over, lines_cleared_now >>

\* ------------------------------------------------------------------------
\* Input boards of the function-level specifications
\* ------------------------------------------------------------------------
\* columns 1 .. BOARD_WIDTH-1 filled in the bottom h rows, column 0 empty:
\* what vertical I pieces dropped side by side build
TowerBoard(h) ==
  [r \in Rows |-> [c \in Cols |->
     IF r >= BOARD_HEIGHT - h /\ c >= 1 THEN 1 ELSE 0]]

\* scattered cells of all seven tags in the lower part of the board
ScatterBoard ==
  [r \in Rows |-> [c \in Cols |->
     IF r >= 8 /\ (2 * r + 3 * c) % 5 = 0 THEN ((r + c) % 7) + 1 ELSE 0]]

PieceBoards == { create_tetris_board, TowerBoard(8), ScatterBoard }

\* a row of one of four kinds, its content depending on its index r so that
\* rows can be told apart after a shift
RowOfKind(kind, r) ==
  [c \in Cols |->
     CASE kind = 0 -> 0
       [] kind = 1 -> ((r + c) % 7) + 1
       [] kind = 2 -> IF c = r % BOARD_WIDTH THEN 0 ELSE ((r + c) % 7) + 1
       [] OTHER    -> IF c = r % BOARD_WIDTH THEN (r % 7) + 1 ELSE 0]

\* rows top .. top+MaxWin-1 are of the kinds given, every other row is sparse
WindowBoard(top, kinds) ==
  [r \in Rows |->
     IF r >= top /\ r < top + MaxWin
     THEN RowOfKind(kinds[r - top + 1], r)
     ELSE RowOfKind(3, r)]

WindowTops == { 0, (BOARD_HEIGHT - MaxWin) \div 2, BOARD_HEIGHT - MaxWin }

RowBoards ==
  { WindowBoard(top, kinds) :
      top \in WindowTops, kinds \in [1 .. MaxWin -> 0 .. 3] }

\* ------------------------------------------------------------------------
\* Function-level specifications: one call of one function on drawn inputs
\* ------------------------------------------------------------------------
\* the session variables a function-level call does not use
Idle ==
  /\ score = 0 /\ lines_cleared_total = 0 /\ game_over = FALSE
  /\ last_move_time = 0 /\ last_gesture_time = 0 /\ last_rotation_time = 0
  /\ hard_drop_active = FALSE /\ current_time = 0
  /\ event = "call"

InitPiece ==
  /\ Idle
  /\ pc = "call" /\ ret = "none" /\ lines_cleared_now = 0
  /\ board \in PieceBoards
  /\ old_board = board
  /\ shape_index \in 0 .. (Len(shape_keys) - 1)
  /\ current_shape_key = shape_keys[shape_index + 1]
  /\ current_rotation \in 0 .. (NumRotations(current_shape_key) - 1)
  /\ pos_x \in (0 - MaxOver) .. BOARD_WIDTH
  /\ pos_y \in (0 - MaxOver) .. BOARD_HEIGHT

CallIsValid ==
  /\ pc = "call"
  /\ pc' = "is_valid_position"
  /\ ret' = is_valid_position(board, current_shape_key, current_rotation,
                              pos_x, pos_y)
  /\ UNCHANGED << board, old_board, pieceVars, timerVars, scoreVars,
                  hard_drop_active, event >>

CallAddPiece ==
  /\ pc = "call"
  /\ pc' = "add_piece_to_board"
  /\ board' = add_piece_to_board(board, current_shape_key, current_rotation,
                                 pos_x, pos_y)
  /\ UNCHANGED << ret, old_board, pieceVars, timerVars, scoreVars,
                  hard_drop_active, event >>

CallHardDrop ==
  /\ pc = "call"
  /\ pc' = "perform_instant_hard_drop"
  /\ ret' = perform_instant_hard_drop(board, current_shape_key,
                                      current_rotation, pos_x, pos_y)
  /\ UNCHANGED << board, old_board, pieceVars, timerVars, scoreVars,
                  hard_drop_active, event >>

NextPiece == CallIsValid \/ CallAddPiece \/ CallHardDrop

SpecPiece == InitPiece /\ [][NextPiece]_vars

InitRows ==
  /\ Idle
  /\ pc = "call" /\ ret = "none" /\ lines_cleared_now = 0
  /\ board \in RowBoards
  /\ old_board = board
  /\ shape_index = 0 /\ current_shape_key = shape_keys[1]
  /\ current_rotation = 0 /\ pos_x = BOARD_WIDTH \div 2 - 2 /\ pos_y = 0

CallClearFullRows ==
  /\ pc = "call"
  /\ pc' = "clear_full_rows"
  /\ board' = clear_full_rows(board).board
  /\ ret' = clear_full_rows(board).lines_cleared
  /\ UNCHANGED << old_board, pieceVars, timerVars, scoreVars,
                  hard_drop_active, event >>

NextRows == CallClearFullRows

SpecRows == InitRows /\ [][NextRows]_vars

InitScore ==
  /\ Idle
  /\ pc = "call" /\ ret = "none"
  /\ lines_cleared_now \in 0 .. MaxLinesArg
  /\ board = create_tetris_board
  /\ old_board = board
  /\ shape_index = 0 /\ current_shape_key = shape_keys[1]
  /\ current_rotation = 0 /\ pos_x = BOARD_WIDTH \div 2 - 2 /\ pos_y = 0

CallCalculateScore ==
  /\ pc = "call"
  /\ pc' = "calculate_score"
  /\ ret' = calculate_score(lines_cleared_now)
  /\ UNCHANGED << board, old_board, pieceVars, timerVars, score,
                  lines_cleared_total, game_over, lines_cleared_now,
                  hard_drop_active, event >>

NextScore == CallCalculateScore

SpecScore == InitScore /\ [][NextScore]_vars

\* ------------------------------------------------------------------------
\* main_backup.py: the session loop
\* ------------------------------------------------------------------------
\* One iteration of `while True` is two steps: UpdateStep (the clock read,
\* the gesture and the automatic fall, lines 187-271), after which the frame
\* is drawn and shown, and KeyStep (cv2.waitKey and the keyboard handling,
\* lines 300-346).

\* shape_keys.index(key)
ShapeIndexOf(key) == (CHOOSE i \in 1 .. Len(shape_keys) : shape_keys[i] = key) - 1

\* faulty variant: the spawn column is the middle column of the board
SpawnX_middle == BOARD_WIDTH \div 2

\* pos_x = BOARD_WIDTH // 2 - 2
SpawnX == BOARD_WIDTH \div 2 - 2

\* the values detect_hand_gesture returns
Gestures == { "left", "right", "rotate", "hardDrop", "none" }

\* the keys the loop tests for; "none" stands for every other value of
\* cv2.waitKey(1) & 0xFF.  The "o" key toggles overlay_mode, which only
\* selects how the frame is composed and is not part of the session state.
Keys == { "a", "d", "w", "s", " ", "n", "o", "r", "q", "none" }

\* clock advance of one iteration: one or two fast-drop periods
DtSet == { HARD_DROP_DELAY, 2 * HARD_DROP_DELAY }

MaxTime == MaxTicks * HARD_DROP_DELAY

\* columns other than `gap` filled in the bottom h rows: what vertical I
\* pieces dropped side by side build (no row is full, nothing was cleared)
WellBoard(h, gap) ==
  [r \in Rows |-> [c \in Cols |->
     IF r >= BOARD_HEIGHT - h /\ c # gap THEN 1 ELSE 0]]

\* the shapes (as indices into shape_keys: I and T) with which a session
\* is started in the middle of a game
MidGameShapes == { ShapeIndexOf("I"), ShapeIndexOf("T") }

\* faulty variant: the restart keeps the shape that ended the game
reset_game_state_keep_shape(now) ==
  [ tetris_board |-> create_tetris_board,
    score |-> 0,
    lines_cleared_total |-> 0,
    game_over |-> FALSE,
    shape_index |-> shape_index,
    current_shape_key |-> current_shape_key,
    current_rotation |-> 0,
    pos_x |-> SpawnX,
    pos_y |-> 0,
    last_move_time |-> now,
    last_gesture_time |-> now,
    last_rotation_time |-> now,
    hard_drop_active |-> FALSE ]

\* reset_game_state, with the three time.time() reads taken as `now`
reset_game_state(now) ==
  [ tetris_board |-> create_tetris_board,
    score |-> 0,
    lines_cleared_total |-> 0,
    game_over |-> FALSE,
    shape_index |-> 0,
    current_shape_key |-> shape_keys[1],
    current_rotation |-> 0,
    pos_x |-> SpawnX,
    pos_y |-> 0,
    last_move_time |-> now,
    last_gesture_time |-> now,
    last_rotation_time |-> now,
    hard_drop_active |-> FALSE ]

\* faulty variant: a rotation is accepted whenever it is asked for
rotation_delay_passed_always(now, last) == TRUE

\* `current_time - last_rotation_time > ROTATION_DELAY`, the test of the
\* rotate gesture (line 219) and of the "w" key (handle_input, line 95)
rotation_delay_passed(now, last) == now - last > ROTATION_DELAY

\* The gesture block (lines 206-241) at clock value now: the fields it may
\* assign.
GestureInput(now, gesture) ==
  LET same == [ pos_x |-> pos_x, current_rotation |-> current_rotation,
                last_gesture_time |-> last_gesture_time,
                last_rotation_time |-> last_rotation_time,
                hard_drop_active |-> hard_drop_active ]
      next_rotation_gesture ==
        (current_rotation + 1) % NumRotations(current_shape_key)
  IN  IF ~(now - last_gesture_time > GESTURE_COOLDOWN) THEN same
      ELSE CASE gesture = "left" ->
                  IF is_valid_position(board, current_shape_key,
                                       current_rotation, pos_x - 1, pos_y)
                  THEN [same EXCEPT !.pos_x = pos_x - 1,
                                    !.last_gesture_time = now,
                                    !.hard_drop_active = FALSE]
                  ELSE [same EXCEPT !.hard_drop_active = FALSE]
             [] gesture = "right" ->
                  IF is_valid_position(board, current_shape_key,
                                       current_rotation, pos_x + 1, pos_y)
                  THEN [same EXCEPT !.pos_x = pos_x + 1,
                                    !.last_gesture_time = now,
                                    !.hard_drop_active = FALSE]
                  ELSE [same EXCEPT !.hard_drop_active = FALSE]
             [] gesture = "rotate" ->
                  IF rotation_delay_passed(now, last_rotation_time)
                  THEN IF is_valid_position(board, current_shape_key,
                                            next_rotation_gesture, pos_x, pos_y)
                       THEN [same EXCEPT
                               !.current_rotation = next_rotation_gesture,
                               !.last_gesture_time = now,
                               !.last_rotation_time = now,
                               !.hard_drop_active = FALSE]
                       ELSE [same EXCEPT !.hard_drop_active = FALSE]
                  ELSE same
             [] gesture = "hardDrop" ->
                  [same EXCEPT !.hard_drop_active = TRUE,
                               !.last_gesture_time = now]
             [] gesture = "none" ->
                  [same EXCEPT !.hard_drop_active = FALSE]
             [] OTHER -> same

\* faulty variant: the rows are cleared before the piece is written into the board
LandClearFirst(b, key, rotation_idx, x, y, sc, lines) ==
  LET cleared == clear_full_rows(b)
      n == cleared.lines_cleared
  IN  [ board |-> add_piece_to_board(cleared.board, key, rotation_idx, x, y),
        lines_cleared_now |-> n,
        lines_cleared_total |-> IF n > 0 THEN lines + n ELSE lines,
        score |-> IF n > 0 THEN sc + calculate_score(n) ELSE sc ]

\* "Piece lands", lines 251-257: the lock, the row clear and the scoring
Land(b, key, rotation_idx, x, y, sc, lines) ==
  LET locked == add_piece_to_board(b, key, rotation_idx, x, y)
      cleared == clear_full_rows(locked)
      n == cleared.lines_cleared
  IN  [ board |-> cleared.board,
        lines_cleared_now |-> n,
        lines_cleared_total |-> IF n > 0 THEN lines + n ELSE lines,
        score |-> IF n > 0 THEN sc + calculate_score(n) ELSE sc ]

\* faulty variant: the piece just spawned is never tested
SpawnBlockedNever(b, idx) == FALSE

\* faulty variant: the game ends when the top row of the board holds a block
SpawnBlockedTopRow(b, idx) == \E c \in Cols : b[0][c] # 0

\* lines 266-267: whether the piece just spawned (shape index idx, rotation
\* 0, at the spawn position) is at an invalid position
SpawnBlocked(b, idx) ==
  ~is_valid_position(b, shape_keys[idx + 1], 0, SpawnX, 0)

\* faulty variant: the fast period whatever the mode
current_move_delay_fast(active) == HARD_DROP_DELAY

\* line 244: the gravity period, by the fast-drop mode (move_delay is
\* DEFAULT_MOVE_DELAY, line 172)
current_move_delay(active) ==
  IF active THEN HARD_DROP_DELAY ELSE DEFAULT_MOVE_DELAY

\* faulty variant: gestures and gravity go on after the game has ended
not_game_over_always == TRUE

\* line 205, `if not game_over:`, the guard of the gesture block and of the
\* automatic downward movement
not_game_over == ~game_over

\* Lines 187-271: the clock read, the gesture block and the automatic
\* downward movement.
UpdateStep(dt, gesture) ==
  /\ pc = "update"
  /\ current_time + dt <= MaxTime
  /\ pc' = "key"
  /\ current_time' = current_time + dt
  /\ UNCHANGED << old_board, ret >>
  /\ IF ~not_game_over
     THEN /\ event' = "over"
          /\ UNCHANGED << board, scoreVars, pieceVars, last_move_time,
                          last_gesture_time, last_rotation_time,
                          hard_drop_active >>
     ELSE LET now == current_time + dt
              g == GestureInput(now, gesture)
          IN  /\ last_gesture_time' = g.last_gesture_time
              /\ last_rotation_time' = g.last_rotation_time
              /\ IF ~(now - last_move_time
                        > current_move_delay(g.hard_drop_active))
                 THEN /\ event' = "wait"
                      /\ pos_x' = g.pos_x
                      /\ current_rotation' = g.current_rotation
                      /\ hard_drop_active' = g.hard_drop_active
                      /\ UNCHANGED << board, scoreVars, shape_index,
                                      current_shape_key, pos_y,
                                      last_move_time >>
                 ELSE /\ last_move_time' = now
                      /\ IF is_valid_position(board, current_shape_key,
                                              g.current_rotation, g.pos_x,
                                              pos_y + 1)
                         THEN /\ event' = "fall"
                              /\ pos_y' = pos_y + 1
                              /\ pos_x' = g.pos_x
                              /\ current_rotation' = g.current_rotation
                              /\ hard_drop_active' = g.hard_drop_active
                              /\ UNCHANGED << board, scoreVars, shape_index,
                                              current_shape_key >>
                         ELSE LET l == Land(board, current_shape_key,
                                            g.current_rotation, g.pos_x,
                                            pos_y, score, lines_cleared_total)
                                  idx == (shape_index + 1) % Len(shape_keys)
                              IN  /\ event' = "land"
                                  /\ board' = l.board
                                  /\ lines_cleared_now' = l.lines_cleared_now
                                  /\ lines_cleared_total' = l.lines_cleared_total
                                  /\ score' = l.score
                                  /\ shape_index' = idx
                                  /\ current_shape_key' = shape_keys[idx + 1]
                                  /\ current_rotation' = 0
                                  /\ pos_x' = SpawnX
                                  /\ pos_y' = 0
                                  /\ hard_drop_active' = FALSE
                                  /\ game_over' = SpawnBlocked(l.board, idx)

\* faulty variant: the index stops at the last rotation state instead of
\* wrapping around to the first
next_rotation_no_wrap(key, rotation_idx) ==
  IF rotation_idx + 1 < NumRotations(key) THEN rotation_idx + 1
                                          ELSE rotation_idx

\* handle_input line 96: the rotation index the "w" key tries
next_rotation(key, rotation_idx) == (rotation_idx + 1) % NumRotations(key)

\* handle_input (lines 74-116): the values it returns
handle_input(key) ==
  LET same == [ new_pos_x |-> pos_x,
                new_current_rotation |-> current_rotation,
                new_current_shape_key |-> current_shape_key,
                new_shape_index |-> shape_index,
                new_pos_y |-> pos_y,
                new_hard_drop_active |-> hard_drop_active,
                new_last_rotation_time |-> last_rotation_time ]
      new_shape_index == (shape_index + 1) % Len(shape_keys)
      potential_new_shape_key == shape_keys[new_shape_index + 1]
  IN  CASE key = "a" ->
             IF is_valid_position(board, current_shape_key, current_rotation,
                                  pos_x - 1, pos_y)
             THEN [same EXCEPT !.new_pos_x = pos_x - 1] ELSE same
        [] key = "d" ->
             IF is_valid_position(board, current_shape_key, current_rotation,
                                  pos_x + 1, pos_y)
             THEN [same EXCEPT !.new_pos_x = pos_x + 1] ELSE same
        [] key = "w" ->
             IF rotation_delay_passed(current_time, last_rotation_time)
                /\ is_valid_position(board, current_shape_key,
                       next_rotation(current_shape_key, current_rotation),
                       pos_x, pos_y)
             THEN [same EXCEPT
                     !.new_current_rotation =
                        next_rotation(current_shape_key, current_rotation),
                     !.new_last_rotation_time = current_time]
             ELSE same
        [] key = "s" ->
             IF is_valid_position(board, current_shape_key, current_rotation,
                                  pos_x, pos_y + 1)
             THEN [same EXCEPT !.new_pos_y = pos_y + 1] ELSE same
        [] key = " " ->
             [same EXCEPT !.new_pos_y =
                perform_instant_hard_drop(board, current_shape_key,
                                          current_rotation, pos_x, pos_y)]
        [] key = "n" ->
             IF is_valid_position(board, potential_new_shape_key, 0,
                                  pos_x, pos_y)
             THEN [same EXCEPT !.new_shape_index = new_shape_index,
                               !.new_current_shape_key = potential_new_shape_key,
                               !.new_current_rotation = 0]
             ELSE same
        [] OTHER -> same

\* faulty variant: the space key writes the piece into the board at the row
\* it drops to
board_after_handle_input_locking(key) ==
  IF key = " "
  THEN add_piece_to_board(board, current_shape_key, current_rotation, pos_x,
         perform_instant_hard_drop(board, current_shape_key,
                                   current_rotation, pos_x, pos_y))
  ELSE board

\* faulty variant: the s key locks a piece that cannot go down
board_after_handle_input_soft_lock(key) ==
  IF key = "s" /\ ~is_valid_position(board, current_shape_key,
                                     current_rotation, pos_x, pos_y + 1)
  THEN add_piece_to_board(board, current_shape_key, current_rotation,
                          pos_x, pos_y)
  ELSE board

\* faulty variant: the r key empties the board of a running game
board_after_handle_input_restart(key) ==
  IF key = "r" THEN create_tetris_board ELSE board

\* handle_input is handed tetris_board (line 321) and only reads it, through
\* is_valid_position and perform_instant_hard_drop: the board after the call
board_after_handle_input(key) == board

\* Lines 300-346: the key read, quit, restart and the keyboard commands.
KeyStep(key) ==
  /\ pc = "key"
  /\ UNCHANGED << current_time, old_board, ret, lines_cleared_now >>
  /\ IF key = "q"
     THEN /\ pc' = "quit"
          /\ event' = "quit"
          /\ UNCHANGED << board, score, lines_cleared_total, game_over,
                          pieceVars, last_move_time, last_gesture_time,
                          last_rotation_time, hard_drop_active >>
     ELSE
     /\ pc' = "update"
     /\ IF game_over
        THEN IF key = "r"
             THEN LET s == reset_game_state(current_time)
                  IN  /\ event' = "reset"
                      /\ board' = s.tetris_board
                      /\ score' = s.score
                      /\ lines_cleared_total' = s.lines_cleared_total
                      /\ game_over' = s.game_over
                      /\ shape_index' = s.shape_index
                      /\ current_shape_key' = s.current_shape_key
                      /\ current_rotation' = s.current_rotation
                      /\ pos_x' = s.pos_x
                      /\ pos_y' = s.pos_y
                      /\ last_move_time' = s.last_move_time
                      /\ last_gesture_time' = s.last_gesture_time
                      /\ last_rotation_time' = s.last_rotation_time
                      /\ hard_drop_active' = s.hard_drop_active
             ELSE /\ event' = "key"
                  /\ UNCHANGED << board, score, lines_cleared_total,
                                  game_over, pieceVars, last_move_time,
                                  last_gesture_time, last_rotation_time,
                                  hard_drop_active >>
        ELSE LET h == handle_input(key)
             IN  /\ event' = IF key = " " THEN "hard_drop" ELSE "key"
                 /\ pos_x' = h.new_pos_x
                 /\ current_rotation' = h.new_current_rotation
                 /\ current_shape_key' = h.new_current_shape_key
                 /\ shape_index' = h.new_shape_index
                 /\ hard_drop_active' = h.new_hard_drop_active
                 /\ last_rotation_time' = h.new_last_rotation_time
                 /\ IF key = "s" /\ pos_y # h.new_pos_y
                    THEN /\ pos_y' = h.new_pos_y
                         /\ last_move_time' = current_time
                    ELSE IF key = " " /\ pos_y # h.new_pos_y
                    THEN /\ pos_y' = h.new_pos_y
                         /\ last_move_time' = current_time - DEFAULT_MOVE_DELAY
                    ELSE UNCHANGED << pos_y, last_move_time >>
                 /\ board' = board_after_handle_input(key)
                 /\ UNCHANGED << score, lines_cleared_total, game_over,
                                 last_gesture_time >>

\* The session right after reset_game_state at clock value 0, or in the
\* middle of a game: a piece just spawned above a stack of vertical I pieces
\* with the last gesture and rotation long past.
Init ==
  /\ pc = "update" /\ event = "init" /\ ret = "none"
  /\ old_board = create_tetris_board
  /\ lines_cleared_now = 0
  /\ current_time = 0
  /\ score = 0 /\ lines_cleared_total = 0 /\ game_over = FALSE
  /\ hard_drop_active = FALSE
  /\ current_rotation = 0 /\ pos_x = SpawnX /\ pos_y = 0
  /\ last_move_time = 0
  /\ \/ /\ board = create_tetris_board
        /\ shape_index = 0
        /\ last_gesture_time = 0 /\ last_rotation_time = 0
     \/ /\ board = WellBoard(BOARD_HEIGHT - 4, SpawnX + 2)
        /\ shape_index \in MidGameShapes
        /\ last_gesture_time = 0 - (ROTATION_DELAY + 1)
        /\ last_rotation_time = 0 - (ROTATION_DELAY + 1)
  /\ current_shape_key = shape_keys[shape_index + 1]

Next ==
  \/ \E dt \in DtSet, gesture \in Gestures : UpdateStep(dt, gesture)
  \/ \E key \in Keys : KeyStep(key)

Spec == Init /\ [][Next]_vars

\* The keyboard rotation on its own: the "w" key pressed again and again on
\* an empty board, each press more than ROTATION_DELAY after the one before,
\* from any valid placement of any shape; ret keeps the placement at the
\* start and the clock counts the presses.
RotateGap == ROTATION_DELAY + 1

InitRotate ==
  /\ score = 0 /\ lines_cleared_total = 0 /\ game_over = FALSE
  /\ hard_drop_active = FALSE /\ lines_cleared_now = 0
  /\ last_move_time = 0 /\ last_gesture_time = 0 /\ last_rotation_time = 0
  /\ current_time = RotateGap
  /\ event = "call" /\ pc = "rotate"
  /\ board = create_tetris_board /\ old_board = board
  /\ shape_index \in 0 .. (Len(shape_keys) - 1)
  /\ current_shape_key = shape_keys[shape_index + 1]
  /\ current_rotation \in 0 .. (NumRotations(current_shape_key) - 1)
  /\ pos_x \in (0 - MaxOver) .. BOARD_WIDTH
  /\ pos_y \in (0 - MaxOver) .. BOARD_HEIGHT
  /\ is_valid_position(board, current_shape_key, current_rotation,
                       pos_x, pos_y)
  /\ ret = << current_rotation, pos_x, pos_y >>

\* one press of "w" through handle_input and lines 324-335, as long as
\* fewer presses were made than the shape has rotation states
RotateAttempt ==
  /\ pc = "rotate"
  /\ LET h == handle_input("w")
         done == current_time \div RotateGap
     IN  /\ pos_x' = h.new_pos_x
         /\ pos_y' = h.new_pos_y
         /\ current_rotation' = h.new_current_rotation
         /\ current_shape_key' = h.new_current_shape_key
         /\ shape_index' = h.new_shape_index
         /\ hard_drop_active' = h.new_hard_drop_active
         /\ last_rotation_time' = h.new_last_rotation_time
         /\ pc' = IF done = NumRotations(current_shape_key)
                  THEN "rotated" ELSE "rotate"
  /\ current_time' = current_time + RotateGap
  /\ UNCHANGED << board, old_board, ret, scoreVars, last_move_time,
                  last_gesture_time, event >>

NextRotate == RotateAttempt

SpecRotate == InitRotate /\ [][NextRotate]_vars

\* The same session fed by a gesture source that can also hand over a string
\* the gesture block has no branch for (lines 210-228 end without an else).
Signals == Gestures \cup { "unrecognized" }

NextAnySignal ==
  \/ \E dt \in DtSet, gesture \in Signals : UpdateStep(dt, gesture)
  \/ \E key \in Keys : KeyStep(key)

SpecAnySignal == Init /\ [][NextAnySignal]_vars

\* ------------------------------------------------------------------------
\* The session loop of main.py
\* ------------------------------------------------------------------------
\* main.py keeps its own loop: one gesture delay, one gravity period, no
\* rotation delay and no fast-drop mode (hard_drop_active and
\* last_rotation_time are not variables of it and stay as they start), and
\* the space key changes the shape.  Its two timing locals, in units of
\* 1/30 s:
move_delay == 15
gesture_delay == 9

\* the keys main.py tests after cv2.waitKey(1) & 0xFF
MainKeys == { "a", "d", "w", "s", " ", "o", "r", "q", "none" }

\* lines 522-538: the gesture block at clock value now
MainGesture(now, gesture) ==
  LET same == [ pos_x |-> pos_x, current_rotation |-> current_rotation,
                last_gesture_time |-> last_gesture_time ]
      next_pos_x == CASE gesture = "left" -> pos_x - 1
                      [] gesture = "right" -> pos_x + 1
                      [] OTHER -> pos_x
      next_rotation_gesture ==
        IF gesture = "rotate"
        THEN (current_rotation + 1) % NumRotations(current_shape_key)
        ELSE current_rotation
  IN  IF ~(now - last_gesture_time > gesture_delay) THEN same
      ELSE IF gesture \in { "left", "right" }
              /\ is_valid_position(board, current_shape_key,
                                   current_rotation, next_pos_x, pos_y)
           THEN [same EXCEPT !.pos_x = next_pos_x,
                             !.last_gesture_time = now]
           ELSE IF gesture = "rotate"
                   /\ is_valid_position(board, current_shape_key,
                                        next_rotation_gesture, pos_x, pos_y)
           THEN [same EXCEPT !.current_rotation = next_rotation_gesture,
                             !.last_gesture_time = now]
           ELSE same

\* main.py lines 505-566: the clock read, the gesture block and the
\* automatic downward movement
MainUpdateStep(dt, gesture) ==
  /\ pc = "update"
  /\ current_time + dt <= MaxTime
  /\ pc' = "key"
  /\ current_time' = current_time + dt
  /\ UNCHANGED << old_board, ret, hard_drop_active, last_rotation_time >>
  /\ IF game_over
     THEN /\ event' = "over"
          /\ UNCHANGED << board, scoreVars, pieceVars, last_move_time,
                          last_gesture_time >>
     ELSE LET now == current_time + dt
              g == MainGesture(now, gesture)
          IN  /\ last_gesture_time' = g.last_gesture_time
              /\ IF ~(now - last_move_time > move_delay)
                 THEN /\ event' = "wait"
                      /\ pos_x' = g.pos_x
                      /\ current_rotation' = g.current_rotation
                      /\ UNCHANGED << board, scoreVars, shape_index,
                                      current_shape_key, pos_y,
                                      last_move_time >>
                 ELSE /\ last_move_time' = now
                      /\ IF is_valid_position(board, current_shape_key,
                                              g.current_rotation, g.pos_x,
                                              pos_y + 1)
                         THEN /\ event' = "fall"
                              /\ pos_y' = pos_y + 1
                              /\ pos_x' = g.pos_x
                              /\ current_rotation' = g.current_rotation
                              /\ UNCHANGED << board, scoreVars, shape_index,
                                              current_shape_key >>
                         ELSE LET l == Land(board, current_shape_key,
                                            g.current_rotation, g.pos_x,
                                            pos_y, score, lines_cleared_total)
                                  idx == (shape_index + 1) % Len(shape_keys)
                              IN  /\ event' = "land"
                                  /\ board' = l.board
                                  /\ lines_cleared_now' = l.lines_cleared_now
                                  /\ lines_cleared_total' = l.lines_cleared_total
                                  /\ score' = l.score
                                  /\ shape_index' = idx
                                  /\ current_shape_key' = shape_keys[idx + 1]
                                  /\ current_rotation' = 0
                                  /\ pos_x' = SpawnX
                                  /\ pos_y' = 0
                                  /\ game_over' = SpawnBlocked(l.board, idx)

\* main.py lines 590-637: the key read, quit, restart and the keyboard
\* commands
MainKeyStep(key) ==
  /\ pc = "key"
  /\ UNCHANGED << current_time, old_board, ret, lines_cleared_now,
                  hard_drop_active, last_rotation_time >>
  /\ IF key = "q"
     THEN /\ pc' = "quit"
          /\ event' = "quit"
          /\ UNCHANGED << board, score, lines_cleared_total, game_over,
                          pieceVars, last_move_time, last_gesture_time >>
     ELSE
     /\ pc' = "update"
     /\ event' = IF game_over /\ key = "r" THEN "reset" ELSE "key"
     /\ IF game_over
        THEN IF key = "r"
             THEN /\ board' = create_tetris_board
                  /\ score' = 0
                  /\ lines_cleared_total' = 0
                  /\ game_over' = FALSE
                  /\ shape_index' = 0
                  /\ current_shape_key' = shape_keys[1]
                  /\ current_rotation' = 0
                  /\ pos_x' = SpawnX
                  /\ pos_y' = 0
                  /\ last_move_time' = current_time
                  /\ last_gesture_time' = current_time
             ELSE UNCHANGED << board, score, lines_cleared_total,
                               game_over, pieceVars, last_move_time,
                               last_gesture_time >>
        ELSE /\ UNCHANGED << board, score, lines_cleared_total, game_over,
                             last_gesture_time >>
             /\ CASE key = "a" ->
                      /\ pos_x' =
                           IF is_valid_position(board, current_shape_key,
                                current_rotation, pos_x - 1, pos_y)
                           THEN pos_x - 1 ELSE pos_x
                      /\ UNCHANGED << shape_index, current_shape_key,
                                      current_rotation, pos_y,
                                      last_move_time >>
                  [] key = "d" ->
                      /\ pos_x' =
                           IF is_valid_position(board, current_shape_key,
                                current_rotation, pos_x + 1, pos_y)
                           THEN pos_x + 1 ELSE pos_x
                      /\ UNCHANGED << shape_index, current_shape_key,
                                      current_rotation, pos_y,
                                      last_move_time >>
                  [] key = "w" ->
                      LET next_rotation_w ==
                            (current_rotation + 1)
                               % NumRotations(current_shape_key)
                      IN  /\ current_rotation' =
                               IF is_valid_position(board, current_shape_key,
                                    next_rotation_w, pos_x, pos_y)
                               THEN next_rotation_w ELSE current_rotation
                          /\ UNCHANGED << shape_index, current_shape_key,
                                          pos_x, pos_y, last_move_time >>
                  [] key = "s" ->
                      IF is_valid_position(board, current_shape_key,
                                           current_rotation, pos_x, pos_y + 1)
                      THEN /\ pos_y' = pos_y + 1
                           /\ last_move_time' = current_time
                           /\ UNCHANGED << shape_index, current_shape_key,
                                           current_rotation, pos_x >>
                      ELSE UNCHANGED << pieceVars, last_move_time >>
                  [] key = " " ->
                      LET idx == (shape_index + 1) % Len(shape_keys)
                          new_shape_key == shape_keys[idx + 1]
                      IN  /\ shape_index' = idx
                          /\ IF is_valid_position(board, new_shape_key, 0,
                                                  pos_x, pos_y)
                             THEN /\ current_shape_key' = new_shape_key
                                  /\ current_rotation' = 0
                             ELSE UNCHANGED << current_shape_key,
                                               current_rotation >>
                          /\ UNCHANGED << pos_x, pos_y, last_move_time >>
                  [] OTHER ->
                      UNCHANGED << pieceVars, last_move_time >>

\* main.py in the middle of a game, within the first gravity period of a
\* piece: an I or T piece above a stack of vertical I pieces, or the first
\* piece of a game, moved along the top and turned by key presses, with the
\* last gesture long past
InitMain ==
  /\ pc = "update" /\ event = "init" /\ ret = "none"
  /\ old_board = create_tetris_board
  /\ lines_cleared_now = 0
  /\ current_time = 0
  /\ score = 0 /\ lines_cleared_total = 0 /\ game_over = FALSE
  /\ hard_drop_active = FALSE /\ last_rotation_time = 0
  /\ last_move_time = 0
  /\ last_gesture_time = 0 - (gesture_delay + 1)
  /\ \/ board = create_tetris_board /\ shape_index = 0
     \/ /\ board = WellBoard(BOARD_HEIGHT - 4, SpawnX + 2)
        /\ shape_index \in MidGameShapes
  /\ current_shape_key = shape_keys[shape_index + 1]
  /\ current_rotation \in 0 .. (NumRotations(current_shape_key) - 1)
  /\ pos_x \in (0 - MaxOver) .. BOARD_WIDTH
  /\ pos_y = 0
  /\ is_valid_position(board, current_shape_key, current_rotation,
                       pos_x, pos_y)

NextMain ==
  \/ \E dt \in DtSet, gesture \in Gestures : MainUpdateStep(dt, gesture)
  \/ \E key \in MainKeys : MainKeyStep(key)

SpecMain == InitMain /\ [][NextMain]_vars

\* ------------------------------------------------------------------------
\* Vocabulary of the properties
\* ------------------------------------------------------------------------
\* the canonical tag of a shape key: I=1, J=2, L=3, O=4, S=5, T=6, Z=7
ShapeTag(key) == CHOOSE i \in 1 .. Len(shape_keys) : shape_keys[i] = key

\* the board coordinates <<row, col>> under the occupied cells of a piece
Footprint(key, rotation_idx, x, y) ==
  { << y + r, x + c >> : << r, c >> \in
      { rc \in (0 .. 3) \X (0 .. 3) :
          create_tetris_shapes[key][rotation_idx + 1][rc[1] + 1][rc[2] + 1] # 0 } }

OnBoard(cell) == cell[1] \in Rows /\ cell[2] \in Cols

FullRows(b) == { r \in Rows : \A c \in Cols : b[r][c] # 0 }

\* full except for exactly one zero cell
AlmostFull(b, r) == Cardinality({ c \in Cols : b[r][c] = 0 }) = 1

\* the compacting reference: k zero rows on top, then the non-full rows of b
\* in their original order
Compact(b) ==
  LET kept == Rows \ FullRows(b)
      k == Cardinality(FullRows(b))
  IN  [t \in Rows |->
         IF t < k THEN [c \in Cols |-> 0]
         ELSE b[CHOOSE s \in kept :
                  Cardinality({ q \in kept : q < s }) = t - k]]

\* ------------------------------------------------------------------------
\* C1: is_valid_position returns true exactly when every occupied cell of
\* the rotation matrix maps inside the board onto a zero cell; unoccupied
\* matrix cells play no part, wherever they map (checked under SpecPiece).
\* ------------------------------------------------------------------------
C1_IsValidIff ==
  pc = "is_valid_position" =>
    (ret <=> \A cell \in Footprint(current_shape_key, current_rotation,
                                   pos_x, pos_y) :
               OnBoard(cell) /\ board[cell[1]][cell[2]] = 0)

\* a piece accepted with a negative anchor: part of its box is off the board
C1_Witness ==
  /\ pc = "is_valid_position" /\ ret = TRUE
  /\ pos_x < 0 /\ board # create_tetris_board

\* ------------------------------------------------------------------------
\* C2: after add_piece_to_board at a valid position every cell under the
\* piece holds the shape's tag and every other cell is as before (SpecPiece).
\* ------------------------------------------------------------------------
C2_LockFrame ==
  (pc = "add_piece_to_board"
     /\ is_valid_position(old_board, current_shape_key, current_rotation,
                          pos_x, pos_y)) =>
    \A r \in Rows : \A c \in Cols :
      board[r][c] =
        IF << r, c >> \in Footprint(current_shape_key, current_rotation,
                                    pos_x, pos_y)
        THEN ShapeTag(current_shape_key)
        ELSE old_board[r][c]

C2_Witness ==
  /\ pc = "add_piece_to_board"
  /\ is_valid_position(old_board, current_shape_key, current_rotation,
                       pos_x, pos_y)
  /\ old_board = ScatterBoard /\ pos_y > 8

\* ------------------------------------------------------------------------
\* C3: clear_full_rows yields the compacting reference and returns the
\* number of full rows of its input (SpecRows).
\* ------------------------------------------------------------------------
C3_ClearIsCompact ==
  pc = "clear_full_rows" =>
    /\ board = Compact(old_board)
    /\ ret = Cardinality(FullRows(old_board))

\* three full rows, not all adjacent, with content above them
C3_Witness ==
  /\ pc = "clear_full_rows" /\ ret = 3
  /\ \E r \in FullRows(old_board) :
       r > 1 /\ (r - 1) \notin FullRows(old_board)
             /\ (r - 2) \in FullRows(old_board)

\* ------------------------------------------------------------------------
\* C4 as stated: with exactly two full rows r1 < r2, the call returns 2,
\* every other row above r2 ends two rows lower and the top two rows are
\* zero (SpecRows).
\* ------------------------------------------------------------------------
C4_AsStated ==
  (pc = "clear_full_rows" /\ Cardinality(FullRows(old_board)) = 2) =>
    LET r2 == CHOOSE r \in FullRows(old_board) :
                \A q \in FullRows(old_board) : q <= r
    IN  /\ ret = 2
        /\ \A r \in Rows \ FullRows(old_board) :
             r < r2 => (r + 2 \in Rows /\ board[r + 2] = old_board[r])
        /\ \A r \in 0 .. 1 : \A c \in Cols : board[r][c] = 0

\* C4 amended: with exactly two full rows r1 < r2, the call returns 2, the
\* rows above r1 end two rows lower, the rows between r1 and r2 end one row
\* lower, the rows below r2 stay, and the top two rows are zero.
C4_TwoFullRows ==
  (pc = "clear_full_rows" /\ Cardinality(FullRows(old_board)) = 2) =>
    LET r2 == CHOOSE r \in FullRows(old_board) :
                \A q \in FullRows(old_board) : q <= r
        r1 == CHOOSE r \in FullRows(old_board) : r # r2
    IN  /\ ret = 2
        /\ \A r \in Rows :
             /\ r < r1 => board[r + 2] = old_board[r]
             /\ (r1 < r /\ r < r2) => board[r + 1] = old_board[r]
             /\ r > r2 => board[r] = old_board[r]
        /\ \A r \in 0 .. 1 : \A c \in Cols : board[r][c] = 0

\* two full rows with a non-full row between them and rows above and below
C4_Witness ==
  /\ pc = "clear_full_rows"
  /\ Cardinality(FullRows(old_board)) = 2
  /\ \E r \in FullRows(old_board) :
       /\ r > 2 /\ r < BOARD_HEIGHT - 3
       /\ (r + 2) \in FullRows(old_board)

\* ------------------------------------------------------------------------
\* C5 as stated: a row that is full except for one zero cell stays at its
\* row index with its content (SpecRows).
\* ------------------------------------------------------------------------
C5_AsStated ==
  pc = "clear_full_rows" =>
    \A r \in Rows : AlmostFull(old_board, r) => board[r] = old_board[r]

\* C5 amended: a row that is full except for one zero cell is never
\* cleared; it ends, with its content, lower by the number of full rows
\* that were below it, so it stays at its index when no row below is full.
C5_AlmostFullKept ==
  pc = "clear_full_rows" =>
    \A r \in Rows : AlmostFull(old_board, r) =>
      board[r + Cardinality({ q \in FullRows(old_board) : q > r })]
        = old_board[r]

\* an almost-full row with two full rows below it
C5_Witness ==
  /\ pc = "clear_full_rows"
  /\ \E r \in Rows :
       /\ AlmostFull(old_board, r)
       /\ Cardinality({ q \in FullRows(old_board) : q > r }) = 2

\* ------------------------------------------------------------------------
\* C6: calculate_score is the lookup 0 -> 0, 1 -> 100, 2 -> 300, 3 -> 500
\* and 800 for every count from 4 on (SpecScore).
\* ------------------------------------------------------------------------
C6_ScoreTable ==
  pc = "calculate_score" =>
    ret = CASE lines_cleared_now = 0 -> 0
            [] lines_cleared_now = 1 -> 100
            [] lines_cleared_now = 2 -> 300
            [] lines_cleared_now = 3 -> 500
            [] lines_cleared_now >= 4 -> 800

C6_Witness ==
  pc = "calculate_score" /\ lines_cleared_now = 5 /\ ret = 800

\* ------------------------------------------------------------------------
\* C9: from a valid position perform_instant_hard_drop returns the lowest
\* row y' >= y reachable through valid rows only (valid at y .. y', invalid
\* at y' + 1) and leaves the board as it was (SpecPiece).
\* ------------------------------------------------------------------------
C9_HardDropTarget ==
  (pc = "perform_instant_hard_drop"
     /\ is_valid_position(old_board, current_shape_key, current_rotation,
                          pos_x, pos_y)) =>
    /\ ret >= pos_y
    /\ \A yy \in pos_y .. ret :
         \A cell \in Footprint(current_shape_key, current_rotation, pos_x, yy) :
           OnBoard(cell) /\ old_board[cell[1]][cell[2]] = 0
    /\ \E cell \in Footprint(current_shape_key, current_rotation,
                             pos_x, ret + 1) :
         ~OnBoard(cell) \/ old_board[cell[1]][cell[2]] # 0
    /\ board = old_board

\* a drop of several rows that ends on scattered cells, above the floor
C9_Witness ==
  /\ pc = "perform_instant_hard_drop"
  /\ is_valid_position(old_board, current_shape_key, current_rotation,
                       pos_x, pos_y)
  /\ old_board = ScatterBoard
  /\ ret > pos_y + 3 /\ ret < BOARD_HEIGHT - 4

\* ------------------------------------------------------------------------
\* Vocabulary of the session properties
\* ------------------------------------------------------------------------
\* the anchors and rotations the gesture block can leave the piece at
AfterGesture ==
  { << pos_x, current_rotation >>, << pos_x - 1, current_rotation >>,
    << pos_x + 1, current_rotation >>,
    << pos_x, (current_rotation + 1) % NumRotations(current_shape_key) >> }

\* the active piece is shape index idx, freshly spawned
AtSpawn(idx) ==
  /\ shape_index' = idx /\ current_shape_key' = shape_keys[idx + 1]
  /\ current_rotation' = 0 /\ pos_x' = BOARD_WIDTH \div 2 - 2 /\ pos_y' = 0

\* ------------------------------------------------------------------------
\* C7: a step in which the piece lands writes the piece into the board at
\* the position it could not move down from, then clears the full rows,
\* then adds the count n to lines_cleared_total and calculate_score(n) to
\* score, then spawns the next piece, all within that one step (Spec).
\* ------------------------------------------------------------------------
C7_LandingStep ==
  [][ (pc = "update" /\ event' = "land") =>
        \E p \in AfterGesture :
          LET locked == add_piece_to_board(board, current_shape_key,
                                           p[2], p[1], pos_y)
              n == Cardinality(FullRows(locked))
          IN  /\ is_valid_position(board, current_shape_key, p[2], p[1], pos_y)
              /\ ~is_valid_position(board, current_shape_key, p[2], p[1],
                                    pos_y + 1)
              /\ board' = Compact(locked)
              /\ lines_cleared_now' = n
              /\ lines_cleared_total' = lines_cleared_total + n
              /\ score' = score + calculate_score(n)
              /\ (n = 1 => score' = score + 100)
              /\ AtSpawn((shape_index + 1) % Len(shape_keys)) ]_vars

\* a landing that completed exactly one row
C7_Witness ==
  /\ pc = "key" /\ event = "land"
  /\ lines_cleared_now = 1 /\ score = 100 /\ lines_cleared_total = 1

\* ------------------------------------------------------------------------
\* C8 as stated: the update that follows a hard-drop request (the space
\* key) locks the piece where the request left it: same column, same
\* rotation, at the row the request computed (Spec).
\* ------------------------------------------------------------------------
C8_AsStated ==
  [][ (pc = "update" /\ event = "hard_drop") =>
        /\ event' = "land"
        /\ board' = Compact(add_piece_to_board(board, current_shape_key,
                              current_rotation, pos_x, pos_y)) ]_vars

\* ------------------------------------------------------------------------
\* C10: game_over turns true only in a step that locked a piece and
\* spawned the next one at an invalid spawn position, and every step that
\* spawns a piece at an invalid position leaves game_over set (Spec).
\* ------------------------------------------------------------------------
C10_GameOverAtSpawn ==
  [][ /\ (~game_over /\ game_over') =>
           /\ event' = "land"
           /\ AtSpawn((shape_index + 1) % Len(shape_keys))
           /\ \E cell \in Footprint(current_shape_key', 0,
                                    BOARD_WIDTH \div 2 - 2, 0) :
                ~OnBoard(cell) \/ board'[cell[1]][cell[2]] # 0
      /\ (event' = "land" /\ pc = "update") =>
           (game_over' <=>
              \E cell \in Footprint(current_shape_key', 0,
                                    BOARD_WIDTH \div 2 - 2, 0) :
                ~OnBoard(cell) \/ board'[cell[1]][cell[2]] # 0) ]_vars

\* the game has ended with the piece that could not be spawned
C10_Witness ==
  /\ game_over /\ event = "land"
  /\ pos_y = 0 /\ current_rotation = 0
  /\ ~is_valid_position(board, current_shape_key, 0, pos_x, 0)

\* ------------------------------------------------------------------------
\* C11: once game_over is true, every step either is the restart (the "r"
\* key) or leaves game_over true and the board, the active piece (shape,
\* rotation, x, y), score and lines_cleared_total as they were, whatever
\* gesture or key the step receives and however much time has passed (Spec).
\* ------------------------------------------------------------------------
C11_GameOverFrozen ==
  [][ game_over =>
        \/ event' = "reset"
        \/ /\ game_over'
           /\ UNCHANGED << board, pieceVars, score, lines_cleared_total >> ]_vars

\* an ended game that has been through an update and a key other than "r"
C11_Witness ==
  /\ game_over /\ pc = "update" /\ event = "key"
  /\ current_time - last_move_time > 0

\* ------------------------------------------------------------------------
\* C12: right after a restart the board is all zeros, score and
\* lines_cleared_total are 0, game_over is false, the active piece is the
\* first catalog shape (I) at rotation 0 and anchor (3, 0), and the fast
\* drop mode is off (Spec).
\* ------------------------------------------------------------------------
C12_AfterReset ==
  event = "reset" =>
    /\ \A r \in Rows : \A c \in Cols : board[r][c] = 0
    /\ score = 0 /\ lines_cleared_total = 0 /\ ~game_over
    /\ shape_index = 0 /\ current_shape_key = "I"
    /\ current_rotation = 0
    /\ pos_x = BOARD_WIDTH \div 2 - 2 /\ pos_x = 3 /\ pos_y = 0
    /\ ~hard_drop_active

\* a restart of a game that had ended some time after its start
C12_Witness ==
  /\ event = "reset" /\ pc = "update"
  /\ current_time > HARD_DROP_DELAY /\ last_move_time = current_time

\* ------------------------------------------------------------------------
\* C13 as stated: an iteration applies at most one of the commands hardDrop,
\* rotate, left, right.  After an update whose gesture block accepted a
\* command (it stamped last_gesture_time with this iteration's clock value)
\* the key half of the same iteration neither moves the piece sideways, nor
\* rotates it, nor drops it (Spec).
\* ------------------------------------------------------------------------
C13_AsStated ==
  [][ (pc = "key" /\ ~game_over /\ last_gesture_time = current_time) =>
        /\ pos_x' = pos_x
        /\ (current_shape_key' = current_shape_key =>
              current_rotation' = current_rotation)
        /\ (event' = "hard_drop" => pos_y' = pos_y) ]_vars

\* ------------------------------------------------------------------------
\* C14 as stated: two accepted left/right/rotate commands are at least
\* GESTURE_COOLDOWN apart, whichever source they come from.  A piece away
\* from rotation 0 has been rotated, at last_rotation_time; a sideways move
\* of that piece in a later iteration, by a gesture or by a key, is then at
\* least the cooldown later than that rotation (Spec).
\* ------------------------------------------------------------------------
C14_AsStated ==
  [][ (/\ ~game_over /\ current_rotation # 0
       /\ last_rotation_time < current_time'
       /\ event' \in { "wait", "fall", "key" }
       /\ pos_x' # pos_x) =>
        current_time' - last_rotation_time >= GESTURE_COOLDOWN ]_vars

\* ------------------------------------------------------------------------
\* C15: the piece falls or lands by gravity only in an update at which more
\* than the gravity period in force (HARD_DROP_DELAY in fast-drop mode,
\* DEFAULT_MOVE_DELAY otherwise) has passed since last_move_time.  An update
\* in which the piece falls moves it down by exactly one row onto free
\* cells, keeps the shape, the board, score and lines, sets last_move_time
\* to the clock value of the update, and changes x or the rotation only by
\* the gesture command accepted in that same update (Spec).
\* ------------------------------------------------------------------------
C15_GravityStep ==
  [][ (pc = "update" /\ event' \in { "fall", "land" }) =>
        /\ current_time' - last_move_time > HARD_DROP_DELAY
        /\ (event' = "fall" /\ ~hard_drop_active') =>
             current_time' - last_move_time > DEFAULT_MOVE_DELAY
        /\ (event' = "land" /\ ~hard_drop_active
                            /\ last_gesture_time' # current_time') =>
             current_time' - last_move_time > DEFAULT_MOVE_DELAY
        /\ last_move_time' = current_time'
        /\ event' = "fall" =>
             /\ pos_y' = pos_y + 1
             /\ << pos_x', current_rotation' >> \in AfterGesture
             /\ last_gesture_time' # current_time' =>
                  (pos_x' = pos_x /\ current_rotation' = current_rotation)
             /\ \A cell \in Footprint(current_shape_key, current_rotation',
                                      pos_x', pos_y') :
                  OnBoard(cell) /\ board[cell[1]][cell[2]] = 0
             /\ UNCHANGED << shape_index, current_shape_key, board, score,
                             lines_cleared_total, game_over >> ]_vars

\* the piece has fallen from the spawn row in normal mode, after a command
\* moved it sideways
C15_Witness ==
  /\ pc = "key" /\ event = "fall" /\ ~hard_drop_active
  /\ pos_y = 1 /\ pos_x # BOARD_WIDTH \div 2 - 2
  /\ last_move_time = current_time
  /\ current_time > DEFAULT_MOVE_DELAY

\* ------------------------------------------------------------------------
\* C16 as stated: an update whose gesture is not hardDrop checks gravity
\* against the normal period: the piece falls or lands in it only when more
\* than DEFAULT_MOVE_DELAY has passed since last_move_time (Spec).
\* ------------------------------------------------------------------------
C16_AsStated ==
  [][ \A dt \in DtSet : \A gesture \in Gestures \ { "hardDrop" } :
        (UpdateStep(dt, gesture) /\ event' \in { "fall", "land" }) =>
          current_time' - last_move_time > DEFAULT_MOVE_DELAY ]_vars

FreeAt(dx) ==
  \A cell \in Footprint(current_shape_key, current_rotation,
                        pos_x + dx, pos_y) :
    OnBoard(cell) /\ board[cell[1]][cell[2]] = 0

\* nothing but x has changed: the piece, the board, the score, the lines
\* and game_over are as before
OnlyXMayChange ==
  UNCHANGED << shape_index, current_shape_key, current_rotation, pos_y,
               board, score, lines_cleared_total, game_over >>

\* ------------------------------------------------------------------------
\* C18: a left or right command (the keys "a" and "d", and the gestures
\* left and right once the gesture cooldown has passed) moves the piece to
\* x + dx exactly when every cell of the piece at (x + dx, y) is on the
\* board and empty; a rejected command leaves x, and either way the shape,
\* the rotation, y, the board, score, lines and game_over are untouched by
\* the command (after a gesture the gravity of the same update may still
\* move the piece down one row) (Spec).
\* ------------------------------------------------------------------------
C18_MoveIffValid ==
  [][ ~game_over =>
        /\ \A key \in { "a", "d" } :
             KeyStep(key) =>
               LET dx == IF key = "a" THEN 0 - 1 ELSE 1
               IN  /\ pos_x' = IF FreeAt(dx) THEN pos_x + dx ELSE pos_x
                   /\ OnlyXMayChange
        /\ \A dt \in DtSet : \A gesture \in { "left", "right" } :
             (/\ UpdateStep(dt, gesture)
              /\ current_time' - last_gesture_time > GESTURE_COOLDOWN
              /\ event' \in { "wait", "fall" }) =>
               LET dx == IF gesture = "left" THEN 0 - 1 ELSE 1
               IN  /\ pos_x' = IF FreeAt(dx) THEN pos_x + dx ELSE pos_x
                   /\ event' = "wait" => OnlyXMayChange ]_vars

\* accepted moves have taken the horizontal I piece to the right wall (it
\* ends at the last column), where a further move right is rejected
C18_Witness ==
  /\ pc = "update" /\ event = "key" /\ ~game_over
  /\ current_shape_key = "I" /\ current_rotation = 0
  /\ pos_x = BOARD_WIDTH - 4

\* the rotation index a rotate command tries
NextRotation == (current_rotation + 1) % NumRotations(current_shape_key)

\* the cells under the active piece turned to rotation rot, at its present
\* anchor, are on the board and empty
FreeTurned(rot) ==
  \A cell \in Footprint(current_shape_key, rot, pos_x, pos_y) :
    OnBoard(cell) /\ board[cell[1]][cell[2]] = 0

\* ------------------------------------------------------------------------
\* C19: a rotate command (the key "w", the gesture rotate) leaves the
\* rotation index either as it was or at (rotation + 1) mod the number of
\* rotation states of the shape; it takes the new index only when the piece
\* turned that way fits at the unchanged anchor, so with a candidate that
\* does not fit the index stays; the command never changes x, y or the
\* shape (after a gesture the gravity of the same update may still move the
\* piece down one row) (Spec).
\* ------------------------------------------------------------------------
C19_RotateInPlace ==
  [][ ~game_over =>
        /\ KeyStep("w") =>
             /\ current_rotation' \in { current_rotation, NextRotation }
             /\ ~FreeTurned(NextRotation) =>
                  current_rotation' = current_rotation
             /\ UNCHANGED << pos_x, pos_y, shape_index, current_shape_key,
                             board >>
        /\ \A dt \in DtSet :
             (UpdateStep(dt, "rotate") /\ event' \in { "wait", "fall" }) =>
               /\ current_rotation' \in { current_rotation, NextRotation }
               /\ ~FreeTurned(NextRotation) =>
                    current_rotation' = current_rotation
               /\ pos_y' = IF event' = "fall" THEN pos_y + 1 ELSE pos_y
               /\ UNCHANGED << pos_x, shape_index, current_shape_key,
                               board >> ]_vars

\* the T piece, moved away from the spawn column and one row down, has
\* just been turned by a key to its second rotation state
C19_Witness ==
  /\ pc = "update" /\ event = "key" /\ ~game_over
  /\ current_shape_key = "T" /\ current_rotation = 1
  /\ pos_x # BOARD_WIDTH \div 2 - 2 /\ pos_y = 1
  /\ last_rotation_time = current_time

C20_WitnessRejected ==
  /\ pc = "rotated" /\ NumRotations(current_shape_key) > 1
  /\ last_rotation_time = 0

\* ------------------------------------------------------------------------
\* C21: the piece present right after a step that locked a piece and
\* spawned the next one, and right after a restart, is at rotation index 0
\* with anchor x = BOARD_WIDTH / 2 - 2 = 3 and y = 0 (Spec).
\* ------------------------------------------------------------------------
C21_SpawnPlacement ==
  event \in { "land", "reset" } =>
    /\ current_rotation = 0
    /\ pos_x = BOARD_WIDTH \div 2 - 2 /\ pos_x = 3
    /\ pos_y = 0

\* a piece spawned after the lock of a piece that had been moved to the
\* left wall, with the game going on
C21_Witness ==
  /\ event = "land" /\ pc = "key" /\ ~game_over
  /\ \E r \in Rows : board[r][0] # 0 /\ board[r][1] = 0

\* the cyclic successor in the catalog order I, J, L, O, S, T, Z
CatalogSuccessor(key) ==
  CASE key = "I" -> "J" [] key = "J" -> "L" [] key = "L" -> "O"
    [] key = "O" -> "S" [] key = "S" -> "T" [] key = "T" -> "Z"
    [] key = "Z" -> "I"

\* ------------------------------------------------------------------------
\* C22 as stated: the shape spawned in a step that locks a piece is the
\* cyclic successor, in the order I, J, L, O, S, T, Z, of the shape of the
\* piece that the step locked, whatever was done to that piece before
\* (SpecMain, the loop of main.py; the loop of main_backup.py, Spec,
\* satisfies the same formula).
\* ------------------------------------------------------------------------
C22_AsStated ==
  [][ (pc = "update" /\ event' = "land") =>
        current_shape_key' = CatalogSuccessor(current_shape_key) ]_vars

\* ------------------------------------------------------------------------
\* C23: in every reachable state of the session every board cell holds 0
\* or a shape tag, a number from 1 to 7 (Spec).
\* ------------------------------------------------------------------------
C23_CellsAreTags ==
  \A r \in Rows : \A c \in Cols : board[r][c] \in 0 .. 7

\* a T piece has been locked on top of I pieces: the board holds the tags
\* 1 and 6 and empty cells
C23_Witness ==
  /\ pc = "key" /\ event = "land"
  /\ \E r \in Rows : \E c \in Cols : board[r][c] = 6
  /\ \E r \in Rows : \E c \in Cols : board[r][c] = 1

\* ------------------------------------------------------------------------
\* C24: between restarts the board changes only in a step that locks a
\* piece: every other step (a left, right, rotate, soft-drop, hard-drop or
\* change-shape command, accepted or not, from a key or a gesture, and
\* every step in which the piece falls by gravity) leaves every board cell
\* as it was (Spec).
\* ------------------------------------------------------------------------
C24_BoardFrame ==
  [][ event' \notin { "land", "reset" } =>
        \A r \in Rows : \A c \in Cols : board'[r][c] = board[r][c] ]_vars

\* the space key has just put the piece on top of the stack, and the stack
\* is as it was at the start
C24_Witness ==
  /\ event = "hard_drop" /\ pos_y > 0
  /\ board = WellBoard(BOARD_HEIGHT - 4, BOARD_WIDTH \div 2)

\* ------------------------------------------------------------------------
\* C25: in every step other than a restart score and lines_cleared_total
\* stay or grow, and they are never negative (Spec).
\* ------------------------------------------------------------------------
C25_ScoreMonotone ==
  [][ /\ event' # "reset" =>
           (score' >= score /\ lines_cleared_total' >= lines_cleared_total)
      /\ score' >= 0 /\ lines_cleared_total' >= 0 ]_vars

\* a row was cleared and the game has gone on through a key step since
C25_Witness ==
  /\ pc = "update" /\ event = "key" /\ ~game_over
  /\ score = 100 /\ lines_cleared_total = 1

\* ------------------------------------------------------------------------
\* C26: the count returned by the row clear that follows a lock, which is
\* the value handed to calculate_score, is at most 4 in every reachable
\* state of the session (Spec).
\* ------------------------------------------------------------------------
C26_AtMostFourRows ==
  lines_cleared_now \in 0 .. 4

\* the lock of a vertical I piece in the well has cleared four rows at once
C26_Witness ==
  /\ event = "land" /\ lines_cleared_now = 4
  /\ lines_cleared_total = 4 /\ score = 800

\* ------------------------------------------------------------------------
\* C27: the catalog has exactly the keys I, J, L, O, S, T, Z; the shape of
\* the piece in hand has 2, 4, 4, 1, 2, 4, 2 rotation states for these keys
\* in turn, and each of its rotation states is a 4x4 matrix with exactly
\* four non-zero cells, all of them the tag of the shape: I=1, J=2, L=3,
\* O=4, S=5, T=6, Z=7 (SpecRotate, whose pieces range over every shape).
\* ------------------------------------------------------------------------
C27_Catalog ==
  /\ DOMAIN create_tetris_shapes = { "I", "J", "L", "O", "S", "T", "Z" }
  /\ LET matrices == create_tetris_shapes[current_shape_key]
         states == CASE current_shape_key = "I" -> 2
                     [] current_shape_key = "J" -> 4
                     [] current_shape_key = "L" -> 4
                     [] current_shape_key = "O" -> 1
                     [] current_shape_key = "S" -> 2
                     [] current_shape_key = "T" -> 4
                     [] current_shape_key = "Z" -> 2
         tag == CASE current_shape_key = "I" -> 1
                  [] current_shape_key = "J" -> 2
                  [] current_shape_key = "L" -> 3
                  [] current_shape_key = "O" -> 4
                  [] current_shape_key = "S" -> 5
                  [] current_shape_key = "T" -> 6
                  [] current_shape_key = "Z" -> 7
     IN  /\ Len(matrices) = states
         /\ \A i \in 1 .. Len(matrices) :
              /\ Len(matrices[i]) = 4
              /\ \A r \in 1 .. 4 : Len(matrices[i][r]) = 4
              /\ Cardinality({ rc \in (1 .. 4) \X (1 .. 4) :
                                 matrices[i][rc[1]][rc[2]] # 0 }) = 4
              /\ \A r \in 1 .. 4 : \A c \in 1 .. 4 :
                   matrices[i][r][c] \in { 0, tag }

\* the Z piece in its second rotation state, the last matrix of the catalog
C27_Witness ==
  /\ current_shape_key = "Z" /\ current_rotation = 1 /\ pc = "rotate"
  /\ shape_index = Len(shape_keys) - 1

\* ------------------------------------------------------------------------
\* gestures.py: detect_hand_gesture
\* ------------------------------------------------------------------------
\* A detected hand is described by what the three detectors return on its
\* landmarks (detect_fist_gesture, detect_pinch_gesture and the raised test
\* of detect_raised_hand, each a function of the landmarks alone) and by the
\* label MediaPipe attaches to it.  MediaPipe reports one handedness entry
\* per detected hand, so the test `i < len(results.multi_handedness)` of
\* line 301 holds for every hand, and at most max_num_hands hands.
max_num_hands == 2

Hands ==
  [ fist : BOOLEAN, pinch : BOOLEAN, raised : BOOLEAN,
    hand_label : { "Left", "Right" } ]

HandLists ==
  UNION { [ 1 .. n -> Hands ] : n \in 0 .. max_num_hands }

detect_raised_hand(hand) ==
  IF hand.raised
    THEN (IF hand.hand_label = "Right" THEN "right" ELSE "left")
    ELSE "none"

\* the final pass, lines 300-306: the first hand in order that is raised
RECURSIVE MovementPass(_, _)
MovementPass(multi_hand_landmarks, i) ==
  IF i > Len(multi_hand_landmarks) THEN "none"
  ELSE LET movement == detect_raised_hand(multi_hand_landmarks[i])
       IN  IF movement # "none" THEN movement
           ELSE MovementPass(multi_hand_landmarks, i + 1)

detect_hand_gesture_pinch_first(multi_hand_landmarks) ==
  IF \E i \in DOMAIN multi_hand_landmarks : multi_hand_landmarks[i].pinch
    THEN "rotate"
  ELSE IF \E i \in DOMAIN multi_hand_landmarks : multi_hand_landmarks[i].fist
    THEN "hardDrop"
  ELSE MovementPass(multi_hand_landmarks, 1)

detect_hand_gesture(multi_hand_landmarks) ==
  IF Len(multi_hand_landmarks) = 0 THEN "none"
  ELSE IF \E i \in DOMAIN multi_hand_landmarks : multi_hand_landmarks[i].fist
    THEN "hardDrop"
  ELSE IF \E i \in DOMAIN multi_hand_landmarks : multi_hand_landmarks[i].pinch
    THEN "rotate"
  ELSE MovementPass(multi_hand_landmarks, 1)

\* ret holds the frame's hands and the local `gesture` of line 278
InitDetect ==
  /\ Idle
  /\ pc = "detect" /\ lines_cleared_now = 0
  /\ board = create_tetris_board /\ old_board = board
  /\ shape_index = 0 /\ current_shape_key = shape_keys[1]
  /\ current_rotation = 0 /\ pos_x = BOARD_WIDTH \div 2 - 2 /\ pos_y = 0
  /\ \E multi_hand_landmarks \in HandLists :
       ret = << multi_hand_landmarks, "none" >>

CallDetectHandGesture ==
  /\ pc = "detect"
  /\ pc' = "detect_hand_gesture"
  /\ ret' = << ret[1], detect_hand_gesture(ret[1]) >>
  /\ UNCHANGED << board, old_board, pieceVars, timerVars, scoreVars,
                  hard_drop_active, event >>

NextDetect == CallDetectHandGesture

SpecDetect == InitDetect /\ [][NextDetect]_vars

\* ------------------------------------------------------------------------
\* C28: detect_hand_gesture returns hardDrop exactly when some detected hand
\* is a fist; rotate exactly when no hand is a fist and some hand pinches;
\* left or right exactly when no hand is a fist or pinches and some hand is
\* raised; and none exactly when no hand is a fist, pinches or is raised
\* (SpecDetect, every list of at most max_num_hands hands).
\* ------------------------------------------------------------------------
C28_GesturePriority ==
  pc = "detect_hand_gesture" =>
    LET hands == ret[1]
        gesture == ret[2]
        any_fist == \E i \in DOMAIN hands : hands[i].fist
        any_pinch == \E i \in DOMAIN hands : hands[i].pinch
        any_raised == \E i \in DOMAIN hands : hands[i].raised
    IN  /\ gesture \in { "hardDrop", "rotate", "left", "right", "none" }
        /\ gesture = "hardDrop" <=> any_fist
        /\ gesture = "rotate" <=> (~any_fist /\ any_pinch)
        /\ gesture \in { "left", "right" } <=>
             (~any_fist /\ ~any_pinch /\ any_raised)
        /\ gesture = "none" <=> (~any_fist /\ ~any_pinch /\ ~any_raised)

\* two hands: the first pinches and is raised, the second is a fist, and
\* the call answered with the hard drop
C28_Witness ==
  /\ pc = "detect_hand_gesture"
  /\ Len(ret[1]) = 2
  /\ ret[1][1].pinch /\ ret[1][1].raised /\ ~ret[1][1].fist
  /\ ret[1][2].fist
  /\ ret[2] = "hardDrop"

\* ------------------------------------------------------------------------
\* One piece from its spawn row to its lock on an empty board
\* ------------------------------------------------------------------------
\* The piece starts at an anchor (x, 0) where it fits.  It goes down by
\* single rows (main_backup.py lines 249-251), or at once to its rest row
\* (perform_instant_hard_drop), and when the row below is refused it is
\* locked and the full rows are cleared (lines 253-255).  old_board keeps
\* the board the piece started on and ret the number of rows single-stepped.
InitLock ==
  /\ Idle
  /\ pc = "drop" /\ ret = 0 /\ lines_cleared_now = 0
  /\ board = create_tetris_board /\ old_board = board
  /\ shape_index \in 0 .. (Len(shape_keys) - 1)
  /\ current_shape_key = shape_keys[shape_index + 1]
  /\ current_rotation \in 0 .. (NumRotations(current_shape_key) - 1)
  /\ pos_x \in (0 - MaxOver) .. BOARD_WIDTH
  /\ pos_y = 0
  /\ is_valid_position(board, current_shape_key, current_rotation,
                       pos_x, pos_y)

SoftDropStep ==
  /\ pc = "drop"
  /\ is_valid_position(board, current_shape_key, current_rotation,
                       pos_x, pos_y + 1)
  /\ pos_y' = pos_y + 1
  /\ ret' = ret + 1
  /\ UNCHANGED << board, old_board, shape_index, current_shape_key,
                  current_rotation, pos_x, timerVars, scoreVars,
                  hard_drop_active, event, pc >>

HardDropStep ==
  /\ pc = "drop"
  /\ pos_y' = perform_instant_hard_drop(board, current_shape_key,
                                        current_rotation, pos_x, pos_y)
  /\ UNCHANGED << board, old_board, ret, shape_index, current_shape_key,
                  current_rotation, pos_x, timerVars, scoreVars,
                  hard_drop_active, event, pc >>

LockStep ==
  /\ pc = "drop"
  /\ ~is_valid_position(board, current_shape_key, current_rotation,
                        pos_x, pos_y + 1)
  /\ LET locked == add_piece_to_board(board, current_shape_key,
                                      current_rotation, pos_x, pos_y)
         cleared == clear_full_rows(locked)
     IN  /\ board' = cleared.board
         /\ lines_cleared_now' = cleared.lines_cleared
  /\ pc' = "locked"
  /\ UNCHANGED << old_board, ret, pieceVars, timerVars, score,
                  lines_cleared_total, game_over, hard_drop_active, event >>

NextLock == SoftDropStep \/ HardDropStep \/ LockStep

SpecLock == InitLock /\ [][NextLock]_vars

\* ------------------------------------------------------------------------
\* C29 as stated: on an empty board an O piece with anchor (4, 0), dropped
\* until it rests and locked, rests at y = 18, clear_full_rows returns 0,
\* and the board is unchanged except for the cells in columns 4-5 of the
\* two bottom rows, which are set to tag 4.  The code violates this: the O
\* matrix occupies columns 1-2 of its 4x4 box, so the piece is written to
\* columns 5-6 (SpecLock).
\* ------------------------------------------------------------------------
C29_AsStated ==
  ( /\ pc = "locked" /\ current_shape_key = "O"
    /\ pos_x = 4 /\ old_board = create_tetris_board ) =>
      /\ pos_y = 18
      /\ lines_cleared_now = 0
      /\ \A r \in Rows : \A c \in Cols :
           board[r][c] = IF r \in { 18, 19 } /\ c \in { 4, 5 }
                         THEN 4 ELSE 0

\* ------------------------------------------------------------------------
\* C29 amended: on an empty board an O piece with anchor (4, 0), dropped
\* until it rests and locked, rests at y = 18, clear_full_rows returns 0,
\* and the board is unchanged except for the cells in columns 5-6 of rows
\* 18-19, which are set to tag 4 (SpecLock).
\* ------------------------------------------------------------------------
C29_OPieceLock ==
  ( /\ pc = "locked" /\ current_shape_key = "O"
    /\ pos_x = 4 /\ old_board = create_tetris_board ) =>
      /\ pos_y = 18
      /\ lines_cleared_now = 0
      /\ \A r \in Rows : \A c \in Cols :
           board[r][c] = IF r \in { 18, 19 } /\ c \in { 5, 6 }
                         THEN 4 ELSE 0

\* the O piece locked from anchor (4, 0) after four single rows and then
\* the instant drop
C29_Witness ==
  /\ pc = "locked" /\ current_shape_key = "O" /\ pos_x = 4
  /\ old_board = create_tetris_board
  /\ ret = 4 /\ pos_y = 18
  /\ board[19][5] = 4

\* ------------------------------------------------------------------------
\* C30: at the start of every loop iteration game_over is false exactly
\* when every occupied cell of the active piece is inside the board and on
\* an empty board cell; and in every state, between the two halves of an
\* iteration as well, a piece of a game that is not over is at such a
\* position, whatever gestures, keys and gravity steps came before (Spec).
\* ------------------------------------------------------------------------
C30_LiveIffValid ==
  /\ pc = "update" => (~game_over <=> FreeAt(0))
  /\ ~game_over => FreeAt(0)

\* a start of iteration with the game over, the piece spawned on the stack
C30_Witness ==
  /\ pc = "update" /\ game_over /\ ~FreeAt(0)
  /\ pos_y = 0 /\ current_rotation = 0

\* a live piece below the spawn row and off the spawn column, after the
\* keyboard half of an iteration
C30_WitnessLive ==
  /\ pc = "update" /\ ~game_over /\ FreeAt(0)
  /\ event = "key" /\ pos_y > 0 /\ pos_x # BOARD_WIDTH \div 2 - 2

\* ------------------------------------------------------------------------
\* C31: in every state of the session, at the start of an iteration and
\* between its two halves, no row of the board is full: every row has at
\* least one zero cell (Spec).
\* ------------------------------------------------------------------------
C31_NoFullRow ==
  \A r \in Rows : \E c \in Cols : board[r][c] = 0

\* a start of iteration after a landing that cleared rows, with rows left
\* on the board that lack a single cell
C31_Witness ==
  /\ pc = "update" /\ lines_cleared_now > 0 /\ lines_cleared_total > 0
  /\ \E r \in Rows : AlmostFull(board, r)

\* ------------------------------------------------------------------------
\* C32: in every state of the session score is a multiple of 100 and lies
\* between 100 and 200 times lines_cleared_total, both ends included; and
\* the points of one landing, which clears at most four rows, are a multiple
\* of 100 between 100 and 200 times the rows it cleared, so that the bounds
\* are kept by every further landing (Spec).
\* ------------------------------------------------------------------------
C32_ScoreBounds ==
  /\ score % 100 = 0
  /\ 100 * lines_cleared_total <= score
  /\ score <= 200 * lines_cleared_total
  /\ \A n \in 0 .. 4 :
       /\ calculate_score(n) % 100 = 0
       /\ 100 * n <= calculate_score(n)
       /\ calculate_score(n) <= 200 * n

\* a landing that cleared four rows at once: the score is at the upper end
C32_Witness ==
  /\ pc = "update" /\ event = "key"
  /\ lines_cleared_total = 4 /\ score = 200 * lines_cleared_total

\* ------------------------------------------------------------------------
\* C33: no step of the session moves the active piece upward: pos_y is set
\* to 0 by the spawn that follows a lock and by a reset, and every other
\* step (gesture, gravity, key) leaves it where it was or increases it
\* (Spec).
\* ------------------------------------------------------------------------
C33_NeverUp ==
  [][ IF event' \in { "land", "reset" }
        THEN pos_y' = 0
        ELSE pos_y' >= pos_y ]_vars

\* a live piece below the spawn row, at the row where it rests, after an
\* update half that neither moved nor locked it
C33_Witness ==
  /\ pc = "key" /\ event = "wait" /\ ~game_over
  /\ pos_y > 1
  /\ pos_y = perform_instant_hard_drop(board, current_shape_key,
                                       current_rotation, pos_x, 0)

\* ------------------------------------------------------------------------
\* The session with the clock read relative to the last iteration
\* ------------------------------------------------------------------------
\* The loop uses the clock only in differences current_time - last_..._time
\* that it compares with delays of at most ROTATION_DELAY.  Rebase moves the
\* origin of the clock to the current iteration and forgets by how much a
\* time stamp is older than every delay; the loop cannot tell the states
\* apart, and a session of any length stays within MaxTime.
TimeFloor == 0 - (ROTATION_DELAY + 1)

Rebased(t) ==
  IF t - current_time < TimeFloor THEN TimeFloor ELSE t - current_time

Rebase ==
  /\ pc = "update"
  /\ current_time > 0
  /\ current_time' = 0
  /\ last_move_time' = Rebased(last_move_time)
  /\ last_gesture_time' = Rebased(last_gesture_time)
  /\ last_rotation_time' = Rebased(last_rotation_time)
  /\ UNCHANGED << board, old_board, ret, pieceVars, scoreVars,
                  hard_drop_active, event, pc >>

\* One piece from its spawn to its lock under every stream of gestures and
\* keys that keeps the loop going (every key but "q"): a piece just spawned
\* above the stack of the well board, and the iterations stop with the
\* landing.
InitFall == Init /\ board # create_tetris_board

ClockRead == pc = "update" /\ current_time = 0 /\ event # "land"

UpdateAny ==
  /\ ClockRead
  /\ \E dt \in DtSet, gesture \in Gestures : UpdateStep(dt, gesture)

KeyAny ==
  /\ event # "land"
  /\ \E key \in Keys \ { "q" } : KeyStep(key)

NextFall == UpdateAny \/ KeyAny \/ Rebase

SpecFall == InitFall /\ [][NextFall]_vars

\* The loop keeps iterating and the clock keeps advancing: no half of an
\* iteration is put off for ever.  UpdateAny is enabled exactly in the
\* states of ClockRead and always leaves them, so that WF_vars(UpdateAny) is
\* the same as []<>(~ClockRead), the form written here.
FairFall ==
  /\ SpecFall
  /\ WF_vars(KeyAny)
  /\ WF_vars(Rebase)
  /\ []<>(~ClockRead)

\* ------------------------------------------------------------------------
\* C34: while the loop keeps iterating (FairFall), the piece spawned is
\* locked in the end whatever gestures and keys come in; and it is locked
\* after at most BOARD_HEIGHT gravity steps, because a gravity step that
\* does not lock the piece takes it exactly one row down, no step before the
\* lock takes it up, and its anchor row stays below BOARD_HEIGHT.
\* ------------------------------------------------------------------------
C34_EventuallyLocked ==
  /\ <>(event = "land")
  /\ [][ /\ event' = "fall" => pos_y' = pos_y + 1
         /\ event' # "land" => pos_y' >= pos_y ]_vars
  /\ [](pos_y >= 0 /\ pos_y <= BOARD_HEIGHT - 1)

\* a T piece locked with its stem in the well, which completed one row,
\* after the falls, moves and the rotation that took it there
C34_Witness ==
  /\ event = "land" /\ pc = "key" /\ ~game_over
  /\ lines_cleared_now = 1
  /\ \E r \in Rows : \E c \in Cols : board[r][c] = 6

\* ------------------------------------------------------------------------
\* The session left alone
\* ------------------------------------------------------------------------
\* From reset_game_state, with the gesture none in every iteration and no
\* key pressed, the clock read relative to the last iteration.
InitIdle == Init /\ board = create_tetris_board

IdleClockRead == pc = "update" /\ current_time = 0

IdleUpdate ==
  /\ IdleClockRead
  /\ \E dt \in DtSet : UpdateStep(dt, "none")

IdleKey == KeyStep("none")

NextIdle == IdleUpdate \/ IdleKey \/ Rebase

SpecIdle == InitIdle /\ [][NextIdle]_vars

\* the loop keeps iterating; []<>(~IdleClockRead) is WF_vars(IdleUpdate),
\* IdleUpdate being enabled exactly in the states of IdleClockRead
FairIdle ==
  /\ SpecIdle
  /\ WF_vars(IdleKey)
  /\ WF_vars(Rebase)
  /\ []<>(~IdleClockRead)

\* ------------------------------------------------------------------------
\* C35: with no gesture and no key ever, and the loop iterating for ever
\* (FairIdle), the session started from reset reaches game_over, and score
\* and lines_cleared_total are 0 throughout.
\* ------------------------------------------------------------------------
C35_IdleGameOver ==
  /\ <>(game_over /\ score = 0 /\ lines_cleared_total = 0)
  /\ [](score = 0 /\ lines_cleared_total = 0)

\* the game over on a stack built in the spawn columns alone, pieces of
\* the last shape of the catalog in it
C35_Witness ==
  /\ game_over /\ pc = "update" /\ event = "key"
  /\ score = 0 /\ lines_cleared_total = 0
  /\ \E r \in Rows : \E c \in Cols : board[r][c] = 7
  /\ \A r \in Rows : \A c \in Cols :
       board[r][c] # 0 => (c >= SpawnX /\ c <= SpawnX + 3)

\* the shape key, at rotation 0, fits at the anchor of the active piece
FitsAtAnchor(key) ==
  \A cell \in Footprint(key, 0, pos_x, pos_y) :
    OnBoard(cell) /\ board[cell[1]][cell[2]] = 0

\* ------------------------------------------------------------------------
\* C36 as stated: in every state the active shape key is
\* shape_keys[shape_index]; and a change-shape command (the space key of
\* main.py) in a game that is not over, when the cyclic successor of the
\* shape does not fit at the anchor with rotation 0, leaves the shape key,
\* the rotation and shape_index unchanged, and otherwise sets the shape to
\* that successor at rotation 0 with x and y unchanged.  The loop of
\* main.py violates this (SpecMain): it advances shape_index before it
\* tests the new shape and does not take the advance back when the shape
\* is refused.
\* ------------------------------------------------------------------------
C36_AsStated ==
  /\ [](current_shape_key = shape_keys[shape_index + 1])
  /\ [][ (~game_over /\ MainKeyStep(" ")) =>
           IF FitsAtAnchor(CatalogSuccessor(current_shape_key))
           THEN /\ current_shape_key' = CatalogSuccessor(current_shape_key)
                /\ current_rotation' = 0
                /\ UNCHANGED << pos_x, pos_y >>
           ELSE UNCHANGED << current_shape_key, current_rotation,
                             shape_index >> ]_vars

\* ------------------------------------------------------------------------
\* C37: the key "r" pressed while game_over is false changes none of the
\* board, the active piece, score, lines_cleared_total, game_over, the
\* fast-drop mode and the three timers (Spec, the loop of main_backup.py).
\* ------------------------------------------------------------------------
C37_RestartIgnored ==
  [][ (~game_over /\ KeyStep("r")) =>
        UNCHANGED << board, pieceVars, score, lines_cleared_total,
                     game_over, hard_drop_active, timerVars >> ]_vars

\* the same for the loop of main.py (SpecMain)
C37_RestartIgnoredMain ==
  [][ (~game_over /\ MainKeyStep("r")) =>
        UNCHANGED << board, pieceVars, score, lines_cleared_total,
                     game_over, hard_drop_active, timerVars >> ]_vars

\* a running game at its key read with rows cleared, points scored and a
\* stack on the board, all of which a restart would wipe
C37_Witness ==
  /\ pc = "key" /\ ~game_over
  /\ score > 0 /\ lines_cleared_total > 0
  /\ \E r \in Rows : \E c \in Cols : board[r][c] # 0

\* ------------------------------------------------------------------------
\* tetris_logic.py: the while loop of clear_full_rows, one iteration a step
\* ------------------------------------------------------------------------
\* ret is row_idx, lines_cleared_now is lines_cleared, old_board the board
\* the function was called with; pc is "while" until the loop test fails.
AllFullBoard == [r \in Rows |-> [c \in Cols |-> ((r + c) % 7) + 1]]

InitClear ==
  /\ Idle
  /\ pc = "while" /\ ret = BOARD_HEIGHT - 1 /\ lines_cleared_now = 0
  /\ board \in RowBoards \cup { AllFullBoard, create_tetris_board }
  /\ old_board = board
  /\ shape_index = 0 /\ current_shape_key = shape_keys[1]
  /\ current_rotation = 0 /\ pos_x = BOARD_WIDTH \div 2 - 2 /\ pos_y = 0

\* lines 99-105: one pass through the body of the loop
WhileBody ==
  /\ pc = "while"
  /\ ret >= 0
  /\ IF RowFull(board, ret)
     THEN /\ lines_cleared_now' = lines_cleared_now + 1
          /\ board' = [ShiftDown(board, ret) EXCEPT ![0] = [c \in Cols |-> 0]]
          /\ ret' = ret
     ELSE /\ ret' = ret - 1
          /\ UNCHANGED << board, lines_cleared_now >>
  /\ UNCHANGED << pc, old_board, pieceVars, timerVars, score,
                  lines_cleared_total, game_over, hard_drop_active, event >>

\* lines 98 and 106: the loop test fails and the function returns
WhileExit ==
  /\ pc = "while"
  /\ ~(ret >= 0)
  /\ pc' = "clear_full_rows"
  /\ UNCHANGED << board, ret, lines_cleared_now, old_board, pieceVars,
                  timerVars, score, lines_cleared_total, game_over,
                  hard_drop_active, event >>

NextClear == WhileBody \/ WhileExit

SpecClear == InitClear /\ [][NextClear]_vars

\* The call keeps running.  WhileBody is enabled exactly where the loop
\* test holds and always changes ret or the board, so that its weak
\* fairness is the []<> formula written here.
FairClear ==
  /\ SpecClear
  /\ WF_vars(WhileExit)
  /\ []<>(~(pc = "while" /\ ret >= 0))

C38_WitnessTopRow ==
  /\ pc = "clear_full_rows" /\ lines_cleared_now = 1
  /\ FullRows(old_board) = { 0 }

\* ------------------------------------------------------------------------
\* C39: in the loop of main_backup.py a rotation succeeds, by the rotate
\* gesture or by the "w" key, only when the clock is more than
\* ROTATION_DELAY past last_rotation_time, and it then stamps
\* last_rotation_time with the clock; a reset stamps it too and nothing
\* else changes it.  So two successful rotations are more than
\* ROTATION_DELAY apart, and none succeeds within ROTATION_DELAY after a
\* reset (Spec).
\* ------------------------------------------------------------------------
C39_RotationSpacing ==
  [][ LET spaced == /\ last_rotation_time' = current_time'
                    /\ current_time' - last_rotation_time > ROTATION_DELAY
      IN  /\ (event' # "reset" /\ last_rotation_time' # last_rotation_time)
                => spaced
          /\ ( /\ event' \notin { "land", "reset" }
               /\ current_shape_key' = current_shape_key
               /\ current_rotation' # current_rotation ) => spaced
          /\ event' = "reset" => last_rotation_time' = current_time'
          /\ last_rotation_time' <= current_time' ]_vars

\* the first rotation after the reset state of clock 0: the I piece on the
\* empty board turned upright by a command that came ROTATION_DELAY plus
\* one fast-drop period later
C39_Witness ==
  /\ board = create_tetris_board /\ score = 0 /\ ~game_over
  /\ current_shape_key = "I" /\ current_rotation = 1
  /\ last_rotation_time = current_time
  /\ current_time = ROTATION_DELAY + HARD_DROP_DELAY

\* the active piece fits one row further down
FreeBelow ==
  \A cell \in Footprint(current_shape_key, current_rotation,
                        pos_x, pos_y + 1) :
    OnBoard(cell) /\ board[cell[1]][cell[2]] = 0

\* ------------------------------------------------------------------------
\* C40: the soft-drop key "s" in a game that is not over never locks the
\* piece: when the piece fits one row down it goes down exactly one row and
\* the gravity timer is restarted at the clock, the rest of the piece, the
\* board and the score as before; when it does not fit, the piece, the
\* board, the score, the lines, game_over and the gravity timer are all
\* unchanged (Spec, the loop of main_backup.py).
\* ------------------------------------------------------------------------
C40_SoftDropNeverLocks ==
  [][ (~game_over /\ KeyStep("s")) =>
        /\ UNCHANGED << board, score, lines_cleared_total, game_over,
                        lines_cleared_now, shape_index, current_shape_key,
                        current_rotation, pos_x >>
        /\ IF FreeBelow
           THEN pos_y' = pos_y + 1 /\ last_move_time' = current_time
           ELSE UNCHANGED << pos_y, last_move_time >> ]_vars

\* the same for the loop of main.py (SpecMain)
C40_SoftDropNeverLocksMain ==
  [][ (~game_over /\ MainKeyStep("s")) =>
        /\ UNCHANGED << board, score, lines_cleared_total, game_over,
                        lines_cleared_now, shape_index, current_shape_key,
                        current_rotation, pos_x >>
        /\ IF FreeBelow
           THEN pos_y' = pos_y + 1 /\ last_move_time' = current_time
           ELSE UNCHANGED << pos_y, last_move_time >> ]_vars

\* a piece resting on the stack at the key read of a running game, with
\* the gravity timer started earlier than this iteration: the "s" key finds
\* no room here
C40_Witness ==
  /\ pc = "key" /\ ~game_over /\ ~FreeBelow
  /\ pos_y > 0 /\ last_move_time < current_time

\* a running game right after its key half, the piece three rows below the
\* spawn row and the gravity timer restarted in this very iteration, as a
\* successful soft drop leaves it
C40_WitnessMoved ==
  /\ pc = "update" /\ event = "key" /\ ~game_over
  /\ pos_y = 3 /\ last_move_time = current_time
  /\ current_time = 2 * HARD_DROP_DELAY /\ ~hard_drop_active

====
